---- MODULE Spec2Model ----
(***************************************************************************)
(* Model of the ai-tournament evaluator: the resource pool (Constraints),  *)
(* the three tournament strategies (Swiss, RoundRobin, SinglePlayer), the  *)
(* TournamentScheduler and the Evaluator main loop with its worker         *)
(* threads and result channel.                                             *)
(*                                                                         *)
(* Agents are identified by their id (1..n).  Scores of a match are small  *)
(* naturals (the f32 values 0.0 and 1.0 and their sums are exact).         *)
(***************************************************************************)
EXTENDS Integers, Sequences, FiniteSets, TLC

(***************************************************************************)
(* Bounds of the model                                                     *)
(***************************************************************************)
MaxAgents == 3
MaxRoster == 4
MaxRounds == 2
MaxMatchPerPair == 2
MaxGamesPerAgent == 2
MaxCpus == 4
MaxCpusPerAgent == 2
MaxRam == 2
MaxCalls == 4
MaxBatch == 3
MaxReAdvance == 1
MaxPending == 8
MaxContenders == 10
MaxSeats == 2
MaxTime == 2
MaxOverrun == 1
MaxTurns == 3
MaxTraitRounds == 4
MaxGames == 3
MaxKills == 3

(* with_max_total_ram and with_ram_per_agent take megabytes *)
MegaByte == 1000000

(***************************************************************************)
(* Generic helpers                                                         *)
(***************************************************************************)
SetMax(S) == CHOOSE x \in S : \A y \in S : y <= x

SetMin(S) == CHOOSE x \in S : \A y \in S : x <= y

Range(s) == {s[i] : i \in 1..Len(s)}

RECURSIVE SeqSum(_)
SeqSum(s) == IF s = <<>> THEN 0 ELSE Head(s) + SeqSum(Tail(s))

EmptyMap == <<>>

(* f32::log2(n as f32).ceil() as usize : log2(0) = -inf and saturates to 0 *)
RECURSIVE CeilLog2From(_, _)
CeilLog2From(n, r) == IF 2^r >= n THEN r ELSE CeilLog2From(n, r + 1)

CeilLog2(n) == IF n <= 1 THEN 0 ELSE CeilLog2From(n, 0)

(* Vec::swap_remove at (1-based) position k *)
SwapRemove(v, k) ==
    LET n == Len(v)
    IN [i \in 1..(n - 1) |-> IF i = k THEN v[n] ELSE v[i]]

(***************************************************************************)
(* Constraints: the resource pool and the slices carved out of it          *)
(***************************************************************************)
(* Constraints::take : the CPUs come from HashSet iteration order, so any  *)
(* num_cpus-subset of the pool may be the one taken (argument taken).      *)
TakeChoices(self, num_cpus) ==
    {c \in SUBSET self.cpus : Cardinality(c) = num_cpus}

TakePoolKeepCpus(self, taken, ram) ==
    [self EXCEPT !.total_ram = @ - ram]

TakePool(self, taken, ram) ==
    [self EXCEPT !.cpus = @ \ taken, !.total_ram = @ - ram]

TakeSliceWhole(self, taken, ram) == [self EXCEPT !.total_ram = ram]

TakeSlice(self, taken, ram) ==
    [self EXCEPT !.cpus = taken, !.total_ram = ram]

(* Constraints::try_take : the guard *)
CanTakeCpusOnly(self, num_cpus, ram) == Cardinality(self.cpus) >= num_cpus

CanTake(self, num_cpus, ram) ==
    Cardinality(self.cpus) >= num_cpus /\ self.total_ram >= ram

(* Constraints::add *)
ConstraintsAddRamOnly(self, res) ==
    [self EXCEPT !.total_ram = @ + res.total_ram]

ConstraintsAdd(self, res) ==
    [self EXCEPT !.total_ram = @ + res.total_ram, !.cpus = @ \cup res.cpus]

(***************************************************************************)
(* TwoPlayersGameScore                                                     *)
(***************************************************************************)
DefaultScore == [num_win |-> 0, num_draw |-> 0, num_lose |-> 0, tie_breaker |-> 0]

(***************************************************************************)
(* SwissTournament                                                         *)
(* self = [kind, agents, round, max_rounds, num_match_per_pair,            *)
(*         scores : agent -> [score : TwoPlayersGameScore, adv : set],     *)
(*         bye_history, warned]                                            *)
(* A MatchResult is a sequence of <<agent, score>>, one per seat.          *)
(***************************************************************************)
SwissNew(max_rounds, num_match_per_pair) ==
    [kind |-> "Swiss", agents |-> <<>>, round |-> 0, max_rounds |-> max_rounds,
     num_match_per_pair |-> num_match_per_pair, scores |-> EmptyMap,
     bye_history |-> {}, warned |-> {}]

SwissAddAgents(self, agents) ==
    [self EXCEPT !.agents = agents,
                 !.max_rounds = IF @ = 0 THEN CeilLog2(Len(agents)) ELSE @,
                 !.scores = [a \in Range(agents) |-> [score |-> DefaultScore, adv |-> {}]]]

(* num_win * 2 + num_draw *)
SwissPoints(sc) == sc.num_win * 2 + sc.num_draw

PairKey(result) ==
    IF result[1][1] < result[2][1] THEN <<result[1][1], result[2][1]>>
                                   ELSE <<result[2][1], result[1][1]>>

PairScoreSeatOrder(result) == <<result[1][2], result[2][2]>>

PairScore(result) ==
    IF result[1][1] < result[2][1] THEN <<result[1][2], result[2][2]>>
                                   ELSE <<result[2][2], result[1][2]>>

(* fold of the scores of one pair over the batch *)
RECURSIVE PairSum(_, _)
PairSum(match_results, key) ==
    IF match_results = <<>> THEN <<0, 0>>
    ELSE LET rest == PairSum(Tail(match_results), key)
             r == Head(match_results)
         IN IF PairKey(r) = key
            THEN <<rest[1] + PairScore(r)[1], rest[2] + PairScore(r)[2]>>
            ELSE rest

(* outcome of one aggregated pair for agent x: "win", "draw", "lose" *)
PairOutcome(sum, key, x) ==
    IF sum[1] = sum[2] THEN "draw"
    ELSE IF (sum[1] > sum[2]) = (key[1] = x) THEN "win" ELSE "lose"

SwissUpdateScores(self, match_results) ==
    LET keys == {PairKey(match_results[i]) : i \in 1..Len(match_results)}
        Mine(x) == {k \in keys : x \in {k[1], k[2]}}
        Count(x, o) == Cardinality({k \in Mine(x) :
                           PairOutcome(PairSum(match_results, k), k, x) = o})
        Other(k, x) == IF k[1] = x THEN k[2] ELSE k[1]
    IN [self EXCEPT !.scores = [x \in DOMAIN @ |->
          [score |-> [@[x].score EXCEPT !.num_win = @ + Count(x, "win"),
                                        !.num_draw = @ + Count(x, "draw"),
                                        !.num_lose = @ + Count(x, "lose")],
           adv |-> @[x].adv \cup {Other(k, x) : k \in Mine(x)}]]]

(* Median tie-breaker of one agent from the scores map *)
TieBreaker(scores, agent) ==
    LET advs == scores[agent].adv
        pts(a) == SwissPoints(scores[a].score)
        vals == {pts(a) : a \in advs}
        total == SeqSum([i \in 1..Cardinality(advs) |->
                          pts(CHOOSE a \in advs :
                                Cardinality({b \in advs : b < a}) = i - 1)])
    IN IF Cardinality(advs) <= 1 THEN 0
       ELSE total - SetMin(vals) - SetMax(vals)

SwissUpdateTieBreakers(self) ==
    [self EXCEPT !.scores = [x \in DOMAIN @ |->
          [@[x] EXCEPT !.score.tie_breaker =
              IF x \in Range(self.agents) THEN TieBreaker(self.scores, x) ELSE @]]]

NeverPlayed(self, a, b) == FALSE

has_played(self, a, b) == b \in self.scores[a].adv

RECURSIVE SwissGreedyPairKeepFirst(_, _, _, _)
SwissGreedyPairKeepFirst(self, group, i, pairings) ==
    IF i >= Len(group) THEN [group |-> group, pairings |-> pairings]
    ELSE LET cands == {j \in (i + 1)..Len(group) :
                          ~has_played(self, group[i], group[j])}
         IN IF cands = {}
            THEN SwissGreedyPairKeepFirst(self, group, i + 1, pairings)
            ELSE LET j == SetMin(cands)
                 IN SwissGreedyPairKeepFirst(self, SwapRemove(group, j), i + 1,
                                             Append(pairings, <<group[i], group[j]>>))

(* the while loop over one score group: greedy pairing with swap_remove *)
RECURSIVE SwissGreedyPair(_, _, _, _)
SwissGreedyPair(self, group, i, pairings) ==
    IF i >= Len(group) THEN [group |-> group, pairings |-> pairings]
    ELSE LET cands == {j \in (i + 1)..Len(group) :
                          ~has_played(self, group[i], group[j])}
         IN IF cands = {}
            THEN SwissGreedyPair(self, group, i + 1, pairings)
            ELSE LET j == SetMin(cands)
                 IN SwissGreedyPair(self, SwapRemove(SwapRemove(group, j), i), i,
                                    Append(pairings, <<group[i], group[j]>>))

(* the loop over the score groups, highest score first *)
RECURSIVE SwissPairGroups(_, _, _, _)
SwissPairGroups(self, keys, leftovers, pairings) ==
    IF keys = {} THEN [leftovers |-> leftovers, pairings |-> pairings]
    ELSE LET k == SetMax(keys)
             InGroup(a) == SwissPoints(self.scores[a].score) = k
             group == SelectSeq(self.agents, InGroup) \o leftovers
             r == SwissGreedyPair(self, group, 1, pairings)
         IN SwissPairGroups(self, keys \ {k}, r.group, r.pairings)

SwissAssignByesNoWin(self, leftovers) ==
    [self EXCEPT !.warned = {a \in Range(leftovers) : a \notin self.bye_history},
                 !.bye_history = @ \cup Range(leftovers)]

(* step 4: every leftover gets a bye; warned = agents for which the        *)
(* "already received a bye" warning is printed                             *)
SwissAssignByes(self, leftovers) ==
    LET L == Range(leftovers)
    IN [self EXCEPT !.warned = {a \in L : a \notin self.bye_history},
                    !.bye_history = @ \cup L,
                    !.scores = [x \in DOMAIN @ |->
                        IF x \in L THEN [@[x] EXCEPT !.score.num_win = @ + 1]
                                   ELSE @[x]]]

PairingsWithByeMatches(self) ==
    LET keys == {SwissPoints(self.scores[a].score) : a \in Range(self.agents)}
        r == SwissPairGroups(self, keys, <<>>, <<>>)
    IN [self |-> SwissAssignByes(self, r.leftovers),
        pending |-> r.pairings \o [k \in 1..Len(r.leftovers) |-> <<r.leftovers[k]>>]]

create_next_round_pairings(self) ==
    LET keys == {SwissPoints(self.scores[a].score) : a \in Range(self.agents)}
        r == SwissPairGroups(self, keys, <<>>, <<>>)
    IN [self |-> SwissAssignByes(self, r.leftovers), pending |-> r.pairings]

SwissRoundsOverLate(self) == self.round > self.max_rounds

SwissRoundsOver(self) == self.round >= self.max_rounds

SwissAdvanceRound(self, scores) ==
    LET s1 == SwissUpdateTieBreakers(SwissUpdateScores(self, scores))
    IN IF SwissRoundsOver(s1) THEN [self |-> s1, pending |-> <<>>]
       ELSE LET r == create_next_round_pairings(s1)
            IN [self |-> [r.self EXCEPT !.round = @ + 1], pending |-> r.pending]

(***************************************************************************)
(* RoundRobinTournament                                                    *)
(* self = [kind, agents, symmetric, scores : agent -> TwoPlayersGameScore] *)
(***************************************************************************)
RoundRobinNew(symmetric) ==
    [kind |-> "RoundRobin", agents |-> <<>>, symmetric |-> symmetric,
     scores |-> EmptyMap]

RRField(match_result, seat) ==
    LET best_score == SetMax({match_result[i][2] : i \in 1..Len(match_result)})
        is_draw == \A i \in 1..Len(match_result) : match_result[i][2] = best_score
    IN IF is_draw THEN "num_draw"
       ELSE IF match_result[seat][2] = best_score THEN "num_win" ELSE "num_lose"

(* the loops over the batch and over the seats of each result: every seat *)
(* adds one to one counter of its agent, so the map after the loops holds  *)
(* the old counters plus the number of seats that hit them                 *)
RRFold(scores, results) ==
    LET width == SetMax({Len(results[k]) : k \in 1..Len(results)} \cup {0})
        seats == {p \in (1..Len(results)) \X (1..width) : p[2] <= Len(results[p[1]])}
        Who(p) == results[p[1]][p[2]][1]
        Cnt(x, f) == Cardinality({p \in seats :
                          Who(p) = x /\ RRField(results[p[1]], p[2]) = f})
        Old(x) == IF x \in DOMAIN scores THEN scores[x] ELSE DefaultScore
    IN [x \in DOMAIN scores \cup {Who(p) : p \in seats} |->
          [num_win |-> Old(x).num_win + Cnt(x, "num_win"),
           num_draw |-> Old(x).num_draw + Cnt(x, "num_draw"),
           num_lose |-> Old(x).num_lose + Cnt(x, "num_lose"),
           tie_breaker |-> Old(x).tie_breaker]]

RRUpdateScoresFresh(self, results) ==
    [self EXCEPT !.scores = RRFold(EmptyMap, results)]

RRUpdateScores(self, results) ==
    [self EXCEPT !.scores = RRFold(@, results)]

(* the inner loop  for j in i..n  of the pairing: one or two entries per j *)
RRRow(agents, symmetric, i) ==
    LET w == IF symmetric THEN 1 ELSE 2
        j(k) == i + ((k - 1) \div w)
    IN [k \in 1..(w * (Len(agents) - i + 1)) |->
          IF (k - 1) % w = 0 THEN <<agents[i], agents[j(k)]>>
                             ELSE <<agents[j(k)], agents[i]>>]

(* the outer loop  for i in 0..n  *)
RECURSIVE RRPairs(_, _, _)
RRPairs(agents, symmetric, i) ==
    IF i > Len(agents) THEN <<>>
    ELSE RRRow(agents, symmetric, i) \o RRPairs(agents, symmetric, i + 1)

RRAdvanceRound(self, scores) ==
    LET s1 == RRUpdateScores(self, scores)
    IN IF DOMAIN s1.scores # {} THEN [self |-> s1, pending |-> <<>>]
       ELSE [self |-> s1, pending |-> RRPairs(s1.agents, s1.symmetric, 1)]

(***************************************************************************)
(* SinglePlayerTournament                                                  *)
(* self = [kind, agents, game_per_agent, scores : agent -> Seq(score)]     *)
(***************************************************************************)
SinglePlayerNew(game_per_agent) ==
    [kind |-> "SinglePlayer", agents |-> <<>>, game_per_agent |-> game_per_agent,
     scores |-> EmptyMap]

EntryPush(scores, agent, score) ==
    IF agent \in DOMAIN scores
    THEN [scores EXCEPT ![agent] = Append(@, score)]
    ELSE (agent :> <<score>>) @@ scores

RECURSIVE SPScoreSeats(_, _)
SPScoreSeats(scores, match_result) ==
    IF match_result = <<>> THEN scores
    ELSE SPScoreSeats(EntryPush(scores, Head(match_result)[1], Head(match_result)[2]),
                      Tail(match_result))

RECURSIVE SPFold(_, _, _)
SPFold(scores, results, k) ==
    IF k = 0 THEN scores
    ELSE SPScoreSeats(SPFold(scores, results, k - 1), results[k])

SPPendingOnce(agents, game_per_agent) == [k \in 1..Len(agents) |-> <<agents[k]>>]

(* vec![vec![agent]; game_per_agent] appended for every drained agent *)
RECURSIVE SPPending(_, _)
SPPending(agents, game_per_agent) ==
    IF agents = <<>> THEN <<>>
    ELSE [k \in 1..game_per_agent |-> <<Head(agents)>>]
         \o SPPending(Tail(agents), game_per_agent)

SPAdvanceRound(self, match_results) ==
    [self |-> [self EXCEPT !.scores = SPFold(@, match_results, Len(match_results)), !.agents = <<>>],
     pending |-> SPPending(self.agents, self.game_per_agent)]

(***************************************************************************)
(* trait TournamentStrategy, dispatched on the strategy kind               *)
(***************************************************************************)
add_agents(self, agents) ==
    IF self.kind = "Swiss" THEN SwissAddAgents(self, agents)
    ELSE [self EXCEPT !.agents = agents]

advance_round(self, scores) ==
    CASE self.kind = "Swiss" -> SwissAdvanceRound(self, scores)
      [] self.kind = "RoundRobin" -> RRAdvanceRound(self, scores)
      [] self.kind = "SinglePlayer" -> SPAdvanceRound(self, scores)

players_per_match(self) == IF self.kind = "SinglePlayer" THEN 1 ELSE 2

(***************************************************************************)
(* State                                                                   *)
(***************************************************************************)
VARIABLES
    pc,           \* position of Evaluator::evaluate / of the strategy's caller
    constraints,  \* Evaluator.constraints, as built by ConstraintsBuilder
    game,         \* the game made by the GameFactory
    strategy,     \* the tournament strategy (scheduler.strategy)
    scheduler,    \* TournamentScheduler fields other than the strategy
    running,      \* the mutex-guarded list of running matches, one per worker
    channel,      \* RunnerResults sent by workers and not yet received
    ret,          \* value returned by the latest advance_round call
    emitted,      \* value returned by the latest advance() / on_result() call
    calls,        \* [round, nonempty, advance] : calls made so far,
                  \* games : results passed by a direct caller of the strategy,
                  \* batch : argument of the latest advance_round call made by
                  \* the scheduler's advance() or by CallAdvanceRound
    runner,       \* the locals of one run_match call, followed turn by turn
    process,      \* one LimitedProcess, its child and its cgroup
    call          \* a function called on its own: [op, input, output]

vars == <<pc, constraints, game, strategy, scheduler, running, channel, ret,
          emitted, calls, runner, process, call>>

(***************************************************************************)
(* Inputs                                                                  *)
(***************************************************************************)
Strategies ==
    {SwissNew(r, m) : r \in 0..MaxRounds, m \in 1..MaxMatchPerPair}
    \cup {RoundRobinNew(b) : b \in BOOLEAN}
    \cup {SinglePlayerNew(g) : g \in 0..MaxGamesPerAgent}

(* values ConstraintsBuilder::build can return *)
BuiltConstraints ==
    {b \in {[total_ram |-> t, agent_ram |-> a, cpus |-> 0..(n - 1),
              cpus_per_agent |-> c] :
                t \in 1..MaxRam, a \in 0..MaxRam, n \in 0..MaxCpus,
                c \in 1..MaxCpusPerAgent} :
        b.agent_ram <= b.total_ram}

Games == {"first", "last", "draw", "low_id"}

AgentList(n) == [i \in 1..n |-> i]

(* game.get_player_score(i) for every seat at the end of a match *)
GameScore(g, ordered_player) ==
    LET n == Len(ordered_player)
        low == SetMin(Range(ordered_player))
    IN [i \in 1..n |->
          CASE g = "first" -> IF i = 1 THEN 1 ELSE 0
            [] g = "last" -> IF i = n THEN 1 ELSE 0
            [] g = "draw" -> 0
            [] g = "low_id" -> IF ordered_player[i] = low THEN 1 ELSE 0]

(***************************************************************************)
(* run_match : the scores of every seat and the slice handed back          *)
(***************************************************************************)
FreedResourcesDrained(settings) ==
    [settings.resources EXCEPT !.cpus = {}, !.total_ram = 0]

FreedResources(settings) == settings.resources

run_match(settings, g) ==
    [results |-> [i \in 1..Len(settings.ordered_player) |->
                    <<settings.ordered_player[i],
                      GameScore(g, settings.ordered_player)[i]>>],
     resources_freed |-> FreedResources(settings)]

(***************************************************************************)
(* TournamentScheduler                                                     *)
(* self = [scores, resources, pending_matches, running_matches,            *)
(*         is_finished]                                                    *)
(***************************************************************************)
SchedulerNew(resources) ==
    [scores |-> <<>>, resources |-> resources, pending_matches |-> <<>>,
     running_matches |-> 0, is_finished |-> FALSE]

(* "Generate new round if needed" *)
NeedsNewRoundEarly(self) ==
    self.pending_matches = <<>> /\ ~self.is_finished

NeedsNewRoundAgain(self) == self.running_matches = 0 /\ self.pending_matches = <<>>

NeedsNewRound(self) ==
    self.running_matches = 0 /\ self.pending_matches = <<>> /\ ~self.is_finished

(* the scheduling loop over pending_matches.drain(..): every outcome       *)
(* [resources, matches_to_run, remaining] the CPU choices allow            *)
RECURSIVE ScheduleLoop(_, _, _, _)
ScheduleLoop(resources, pending, cpu_per_match, ram_per_match) ==
    IF pending = <<>>
    THEN {[resources |-> resources, matches_to_run |-> <<>>, remaining |-> <<>>]}
    ELSE IF CanTake(resources, cpu_per_match, ram_per_match)
    THEN UNION {
           {[o EXCEPT !.matches_to_run =
                <<[ordered_player |-> Head(pending),
                   resources |-> TakeSlice(resources, taken, ram_per_match)]>> \o @] :
              o \in ScheduleLoop(TakePool(resources, taken, ram_per_match),
                                 Tail(pending), cpu_per_match, ram_per_match)} :
           taken \in TakeChoices(resources, cpu_per_match)}
    ELSE {[o EXCEPT !.remaining = <<Head(pending)>> \o @] :
            o \in ScheduleLoop(resources, Tail(pending), cpu_per_match, ram_per_match)}

RunningAfterForgotten(running_matches, matches_to_run) == running_matches

RunningAfter(running_matches, matches_to_run) ==
    running_matches + Len(matches_to_run)

(* TournamentScheduler::advance : the set of possible                     *)
(* [scheduler, strategy, matches_to_run, called, ret]                      *)
SchedulerAdvance(self, strat) ==
    LET called == NeedsNewRound(self)
        r == advance_round(strat, self.scores)
        strat1 == IF called THEN r.self ELSE strat
        self1 == IF called
                 THEN [self EXCEPT !.scores = <<>>,
                                   !.pending_matches = r.pending,
                                   !.is_finished = (r.pending = <<>>)]
                 ELSE self
        cpu_per_match == self1.resources.cpus_per_agent * players_per_match(strat1)
        ram_per_match == self1.resources.agent_ram * players_per_match(strat1)
    IN {[scheduler |-> [self1 EXCEPT
                          !.resources = o.resources,
                          !.pending_matches = o.remaining,
                          !.running_matches = RunningAfter(@, o.matches_to_run)],
         strategy |-> strat1,
         matches_to_run |-> o.matches_to_run,
         called |-> called,
         batch |-> IF called THEN self.scores ELSE <<>>,
         ret |-> IF called THEN r.pending ELSE <<>>] :
          o \in ScheduleLoop(self1.resources, self1.pending_matches,
                             cpu_per_match, ram_per_match)}

(* TournamentScheduler::on_result, up to its call of advance() *)
ReceiveResultUnrecorded(self, result) ==
    [self EXCEPT !.resources = ConstraintsAdd(@, result.resources_freed),
                 !.running_matches = @ - 1]

ReceiveResult(self, result) ==
    [self EXCEPT !.scores = Append(@, result.results),
                 !.resources = ConstraintsAdd(@, result.resources_freed),
                 !.running_matches = @ - 1]

on_result(self, strat, result) == SchedulerAdvance(ReceiveResult(self, result), strat)

(***************************************************************************)
(* Evaluator::evaluate                                                     *)
(***************************************************************************)
NoConstraints == [total_ram |-> 0, agent_ram |-> 0, cpus |-> {}, cpus_per_agent |-> 0]

NoCalls == [round |-> 0, nonempty |-> 0, advance |-> 0, games |-> 0, batch |-> <<>>]

NoRunner == [pc |-> "none"]

NoCall == [op |-> "none", input |-> <<>>, output |-> [kind |-> "none"]]

NoOp == [op |-> "none", result |-> "none", cause |-> "none", kill |-> "none"]

NoProcess ==
    [impl |-> "linux", counter |-> [hi |-> 0, lo |-> 1], handle |-> "none",
     contained |-> FALSE,
     cleaned_up |-> FALSE, child |-> "none", member |-> FALSE, others |-> FALSE,
     group |-> "none", kills |-> 0, killed_ok |-> FALSE, last |-> NoOp]

Init ==
    /\ pc = "new"
    /\ constraints \in BuiltConstraints
    /\ game \in Games
    /\ strategy \in Strategies
    /\ scheduler = SchedulerNew(constraints)
    /\ running = <<>>
    /\ channel = <<>>
    /\ ret = <<>>
    /\ emitted = <<>>
    /\ calls = NoCalls
    /\ runner = NoRunner
    /\ process = NoProcess
    /\ call = NoCall

(* steps 2-4: collect the agents, add them, build the scheduler; the        *)
(* evaluations explored have at most MaxPending matches in their first     *)
(* round                                                                   *)
AddAgents ==
    /\ pc = "new"
    /\ \E n \in 0..MaxAgents :
          /\ Len(advance_round(add_agents(strategy, AgentList(n)), <<>>).pending)
                <= MaxPending
          /\ strategy' = add_agents(strategy, AgentList(n))
    /\ scheduler' = SchedulerNew(constraints)
    /\ pc' = "seed"
    /\ UNCHANGED <<constraints, game, running, channel, ret, emitted, calls, runner, process, call>>

(* the effect of one outcome o of advance(): the scheduler and strategy    *)
(* are updated and launch_match pushes every new match on the running list *)
Launch(o) ==
    /\ scheduler' = o.scheduler
    /\ strategy' = o.strategy
    /\ running' = running \o o.matches_to_run
    /\ emitted' = o.matches_to_run
    /\ ret' = IF o.called THEN o.ret ELSE ret
    /\ calls' = [calls EXCEPT
                   !.round = IF o.called THEN @ + 1 ELSE @,
                   !.nonempty = IF o.called /\ o.ret # <<>> THEN @ + 1 ELSE @,
                   !.batch = IF o.called THEN o.batch ELSE @]

(* step 6: launch_initial_matches *)
LaunchInitialMatches ==
    /\ pc = "seed"
    /\ \E o \in SchedulerAdvance(scheduler, strategy) : Launch(o)
    /\ pc' = "loop"
    /\ UNCHANGED <<constraints, game, channel, runner, process, call>>

(* remove_running_match: the first position equal to the worker's match *)
RemoveRunning(list, settings) ==
    LET pos == SetMin({k \in 1..Len(list) : list[k] = settings})
    IN [k \in 1..(Len(list) - 1) |-> IF k < pos THEN list[k] ELSE list[k + 1]]

(* a worker thread: run_match returns, the match leaves the running list   *)
(* and the result is sent on the channel                                   *)
WorkerFinish ==
    /\ \E i \in 1..Len(running) :
          /\ running' = RemoveRunning(running, running[i])
          /\ channel' = Append(channel, run_match(running[i], game))
    /\ UNCHANGED <<pc, constraints, game, strategy, scheduler, ret, emitted, calls, runner, process, call>>

(* step 7: one iteration of the main loop *)
MainLoop ==
    /\ pc = "loop"
    /\ ~scheduler.is_finished
    /\ channel # <<>>
    /\ \E o \in on_result(scheduler, strategy, Head(channel)) : Launch(o)
    /\ channel' = Tail(channel)
    /\ UNCHANGED <<pc, constraints, game, runner, process, call>>

(* the loop exits and the final scores are collected *)
Return ==
    /\ pc = "loop"
    /\ scheduler.is_finished
    /\ pc' = "done"
    /\ UNCHANGED <<constraints, game, strategy, scheduler, running, channel, ret,
                   emitted, calls, runner, process, call>>

Next == AddAgents \/ LaunchInitialMatches \/ WorkerFinish \/ MainLoop \/ Return

Spec == Init /\ [][Next]_vars

(***************************************************************************)
(* The evaluation thread by thread (src/src/server.rs:140-223).  The main  *)
(* thread launches the matches of an advance() one at a time, each with    *)
(* its own worker thread; a worker runs the match, takes it off the        *)
(* running list under the mutex and then sends the result.                 *)
(* call.output = [to_launch : the matches of the latest advance() that     *)
(*                            launch_match has not been called for yet,    *)
(*                threads   : the worker threads alive, in spawn order,    *)
(*                            each [settings, pc] with pc "run_match"      *)
(*                            (before remove_running_match), "removed"     *)
(*                            (before the send) or "panicked" (the expect  *)
(*                            of remove_running_match fired) ]             *)
(* pc = "exited" after the panic hook has ended the process.               *)
(***************************************************************************)
NoWorkers ==
    [op |-> "evaluate", input |-> <<>>,
     output |-> [kind |-> "threads", to_launch |-> <<>>, threads |-> <<>>]]

InitWorkers ==
    /\ pc = "new"
    /\ constraints \in BuiltConstraints
    /\ game \in Games
    /\ strategy \in Strategies
    /\ scheduler = SchedulerNew(constraints)
    /\ running = <<>>
    /\ channel = <<>>
    /\ ret = <<>>
    /\ emitted = <<>>
    /\ calls = NoCalls
    /\ runner = NoRunner
    /\ process = NoProcess
    /\ call = NoWorkers

(* the effect of one outcome o of advance() on the main thread: the new *)
(* matches wait for their launch_match call                             *)
Advanced(o) ==
    /\ scheduler' = o.scheduler
    /\ strategy' = o.strategy
    /\ emitted' = o.matches_to_run
    /\ ret' = IF o.called THEN o.ret ELSE ret
    /\ calls' = [calls EXCEPT
                   !.round = IF o.called THEN @ + 1 ELSE @,
                   !.nonempty = IF o.called /\ o.ret # <<>> THEN @ + 1 ELSE @,
                   !.batch = IF o.called THEN o.batch ELSE @]
    /\ call' = [call EXCEPT !.output.to_launch = o.matches_to_run]
    /\ pc' = IF o.matches_to_run = <<>> THEN "loop" ELSE "launch"

(* step 6: scheduler.advance() of launch_initial_matches *)
WorkersSeed ==
    /\ pc = "seed"
    /\ \E o \in SchedulerAdvance(scheduler, strategy) : Advanced(o)
    /\ UNCHANGED <<constraints, game, running, channel, runner, process>>

(* a push that is lost *)
PushLost(list, settings) == list

(* Vec::push under the mutex *)
Push(list, settings) == Append(list, settings)

(* launch_match: the match is pushed on the running list, then its worker *)
(* thread is spawned                                                      *)
launch_match ==
    /\ pc = "launch"
    /\ LET m == Head(call.output.to_launch)
       IN  /\ running' = Push(running, m)
           /\ call' = [call EXCEPT
                         !.output.to_launch = Tail(@),
                         !.output.threads = Append(@, [settings |-> m, pc |-> "run_match"])]
    /\ pc' = IF Tail(call.output.to_launch) = <<>> THEN "loop" ELSE "launch"
    /\ UNCHANGED <<constraints, game, strategy, scheduler, channel, ret, emitted,
                   calls, runner, process>>

(* remove_running_match in worker t: position(..).expect(..) panics when no *)
(* entry equals the worker's match, and the panic hook ends the process     *)
remove_running_match(t) ==
    /\ pc \in {"launch", "loop", "done"}
    /\ call.output.threads[t].pc = "run_match"
    /\ IF \E k \in 1..Len(running) : running[k] = call.output.threads[t].settings
       THEN /\ running' = RemoveRunning(running, call.output.threads[t].settings)
            /\ call' = [call EXCEPT !.output.threads[t].pc = "removed"]
            /\ pc' = pc
       ELSE /\ running' = running
            /\ call' = [call EXCEPT !.output.threads[t].pc = "panicked"]
            /\ pc' = "exited"
    /\ UNCHANGED <<constraints, game, strategy, scheduler, channel, ret, emitted,
                   calls, runner, process>>

(* the threads without thread t *)
Joined(threads, t) ==
    [k \in 1..(Len(threads) - 1) |-> IF k < t THEN threads[k] ELSE threads[k + 1]]

(* tx_result.send(result).unwrap() in worker t, the end of the thread; the *)
(* send fails, and unwrap panics, once evaluate has dropped the receiver   *)
SendResult(t) ==
    /\ pc \in {"launch", "loop", "done"}
    /\ call.output.threads[t].pc = "removed"
    /\ IF pc = "done"
       THEN /\ pc' = "exited"
            /\ UNCHANGED <<channel, call>>
       ELSE /\ channel' = Append(channel, run_match(call.output.threads[t].settings, game))
            /\ call' = [call EXCEPT !.output.threads = Joined(@, t)]
            /\ pc' = pc
    /\ UNCHANGED <<constraints, game, strategy, scheduler, running, ret, emitted,
                   calls, runner, process>>

(* run_match panics in worker t and the panic hook ends the process *)
RunMatchPanics(t) ==
    /\ pc \in {"launch", "loop", "done"}
    /\ call.output.threads[t].pc = "run_match"
    /\ pc' = "exited"
    /\ UNCHANGED <<constraints, game, strategy, scheduler, running, channel, ret,
                   emitted, calls, runner, process, call>>

(* step 7: one iteration of the main loop; recv() blocks on an empty channel *)
WorkersMainLoop ==
    /\ pc = "loop"
    /\ ~scheduler.is_finished
    /\ channel # <<>>
    /\ \E o \in on_result(scheduler, strategy, Head(channel)) : Advanced(o)
    /\ channel' = Tail(channel)
    /\ UNCHANGED <<constraints, game, running, runner, process>>

NextWorkers ==
    \/ (call.op = "evaluate" /\ AddAgents)
    \/ WorkersSeed
    \/ launch_match
    \/ \E t \in 1..Len(call.output.threads) : remove_running_match(t)
    \/ \E t \in 1..Len(call.output.threads) : SendResult(t)
    \/ \E t \in 1..Len(call.output.threads) : RunMatchPanics(t)
    \/ WorkersMainLoop
    \/ (call.op = "evaluate" /\ Return)

SpecWorkers == InitWorkers /\ [][NextWorkers]_vars

(***************************************************************************)
(* The scheduler called by a client that may call advance() again at any   *)
(* time between two results                                                *)
(***************************************************************************)
ReAdvance ==
    /\ pc = "loop"
    /\ calls.advance < MaxReAdvance
    /\ \E o \in SchedulerAdvance(scheduler, strategy) :
          /\ scheduler' = o.scheduler
          /\ strategy' = o.strategy
          /\ running' = running \o o.matches_to_run
          /\ emitted' = o.matches_to_run
          /\ ret' = IF o.called THEN o.ret ELSE ret
          /\ calls' = [calls EXCEPT
                         !.advance = @ + 1,
                         !.round = IF o.called THEN @ + 1 ELSE @,
                         !.nonempty = IF o.called /\ o.ret # <<>> THEN @ + 1 ELSE @,
                         !.batch = IF o.called THEN o.batch ELSE @]
    /\ UNCHANGED <<pc, constraints, game, channel, runner, process, call>>

NextSched == Next \/ ReAdvance

SpecSched == Init /\ [][NextSched]_vars

(***************************************************************************)
(* An evaluation whose rounds hold five two-player matches: a Swiss        *)
(* tournament of ten agents (or more, the last one receiving a bye)        *)
(***************************************************************************)
InitContention ==
    /\ Init
    /\ strategy.kind = "Swiss"
    /\ strategy.max_rounds >= 1

AddContenders ==
    /\ pc = "new"
    /\ \E n \in 10..MaxContenders : strategy' = add_agents(strategy, AgentList(n))
    /\ scheduler' = SchedulerNew(constraints)
    /\ pc' = "seed"
    /\ UNCHANGED <<constraints, game, running, channel, ret, emitted, calls, runner, process, call>>

NextContention ==
    AddContenders \/ LaunchInitialMatches \/ WorkerFinish \/ MainLoop \/ Return

SpecContention == InitContention /\ [][NextContention]_vars

(***************************************************************************)
(* A strategy driven directly through the TournamentStrategy trait         *)
(***************************************************************************)
ScoreValues == {0, 1}

(* the strategies driven directly: Swiss tournaments with more rounds too  *)
TraitStrategies ==
    Strategies \cup {SwissNew(r, m) : r \in 0..MaxTraitRounds, m \in 1..MaxMatchPerPair}

InitStrategy ==
    /\ pc = "new"
    /\ constraints = NoConstraints
    /\ game = "draw"
    /\ strategy \in TraitStrategies
    /\ scheduler = SchedulerNew(NoConstraints)
    /\ running = <<>>
    /\ channel = <<>>
    /\ ret = <<>>
    /\ emitted = <<>>
    /\ calls = NoCalls
    /\ runner = NoRunner
    /\ process = NoProcess
    /\ call = NoCall

StrategyAddAgents ==
    /\ pc = "new"
    /\ \E n \in 0..MaxRoster : strategy' = add_agents(strategy, AgentList(n))
    /\ pc' = "rounds"
    /\ UNCHANGED <<constraints, game, scheduler, running, channel, ret, emitted, calls, runner, process, call>>

(* one advance_round call with the batch scores *)
CallAdvanceRound(scores) ==
    LET r == advance_round(strategy, scores)
    IN /\ pc = "rounds"
       /\ calls.round < MaxCalls
       /\ strategy' = r.self
       /\ ret' = r.pending
       /\ calls' = [calls EXCEPT !.round = @ + 1,
                                 !.nonempty = IF r.pending # <<>> THEN @ + 1 ELSE @,
                                 !.games = @ + Len(scores),
                                 !.batch = scores]
       /\ UNCHANGED <<pc, constraints, game, scheduler, running, channel, emitted, runner, process, call>>

(* the results of the matches of the previous round, played as game g *)
BatchOfGame(g) ==
    [k \in 1..Len(ret) |-> run_match([ordered_player |-> ret[k],
                                      resources |-> NoConstraints], g).results]

AdvanceRoundPlayed == \E g \in Games : CallAdvanceRound(BatchOfGame(g))

(* the results of the matches of the previous round with arbitrary scores *)
AdvanceRoundScored ==
    /\ ret # <<>>
    /\ Len(ret) <= MaxBatch
    /\ \E sc \in [1..Len(ret) -> [1..players_per_match(strategy) -> ScoreValues]] :
          CallAdvanceRound([k \in 1..Len(ret) |->
                              [i \in 1..Len(ret[k]) |-> <<ret[k][i], sc[k][i]>>]])

(* a call that passes no result *)
AdvanceRoundEmpty == ret # <<>> /\ CallAdvanceRound(<<>>)

NextStrategy ==
    StrategyAddAgents \/ AdvanceRoundPlayed \/ AdvanceRoundScored \/ AdvanceRoundEmpty

SpecStrategy == InitStrategy /\ [][NextStrategy]_vars

(***************************************************************************)
(* A Swiss tournament whose caller plays several games for each pairing of *)
(* a round: the results are collected in the scheduler's accumulator and   *)
(* passed to advance_round in one batch                                    *)
(***************************************************************************)
InitSwissGames ==
    /\ InitStrategy
    /\ strategy \in {SwissNew(r, m) : r \in 1..MaxRounds, m \in 1..MaxMatchPerPair}

(* the batches of m games on the pairings of the round in which every      *)
(* pairing is played at least once and at most MaxMatchPerPair times       *)
GamesOwners(m) ==
    {o \in [1..m -> 1..Len(ret)] :
        /\ \A k \in 1..(m - 1) : o[k] <= o[k + 1]
        /\ \A p \in 1..Len(ret) :
              Cardinality({k \in 1..m : o[k] = p}) \in 1..MaxMatchPerPair}

(* on_result, for every game of the round: the games are played in either  *)
(* seat order and with arbitrary scores                                    *)
CollectGames ==
    /\ pc = "rounds"
    /\ ret # <<>>
    /\ scheduler.scores = <<>>
    /\ \E m \in Len(ret)..MaxGames :
       \E o \in GamesOwners(m) :
       \E flip \in [1..m -> BOOLEAN] :
       \E sc \in [1..m -> [1..2 -> ScoreValues]] :
          scheduler' = [scheduler EXCEPT !.scores = [k \in 1..m |->
              IF flip[k] THEN <<<<ret[o[k]][2], sc[k][1]>>, <<ret[o[k]][1], sc[k][2]>>>>
                         ELSE <<<<ret[o[k]][1], sc[k][1]>>, <<ret[o[k]][2], sc[k][2]>>>>]]
    /\ UNCHANGED <<pc, constraints, game, strategy, running, channel, ret, emitted,
                   calls, runner, process, call>>

(* advance(): strategy.advance_round(mem::take(&mut self.scores)) *)
AdvanceOnGames ==
    LET r == advance_round(strategy, scheduler.scores)
    IN /\ pc = "rounds"
       /\ scheduler.scores # <<>>
       /\ strategy' = r.self
       /\ ret' = r.pending
       /\ scheduler' = [scheduler EXCEPT !.scores = <<>>]
       /\ calls' = [calls EXCEPT !.round = @ + 1,
                                 !.nonempty = IF r.pending # <<>> THEN @ + 1 ELSE @,
                                 !.games = @ + Len(scheduler.scores)]
       /\ pc' = "scored"
       /\ UNCHANGED <<constraints, game, running, channel, emitted, runner, process, call>>

(* a round whose pairings are played once each, as the scheduler does *)
PlayRound == scheduler.scores = <<>> /\ AdvanceRoundPlayed

NextSwissGames ==
    StrategyAddAgents \/ PlayRound \/ CollectGames \/ AdvanceOnGames

SpecSwissGames == InitSwissGames /\ [][NextSwissGames]_vars

(***************************************************************************)
(* The Game a match is played on.  The trait leaves the game to the user;  *)
(* the games explored are turn games of len turns in which the seats play  *)
(* in turn, a seat that passes None is out, and a seat scores 1.0 unless   *)
(* it is out.  from_empty tells whether Action::from_str accepts the empty *)
(* text (as the FromStr of String does).                                   *)
(***************************************************************************)
GameNew(n, len, from_empty) ==
    [n |-> n, len |-> len, from_empty |-> from_empty, turn |-> 0, out |-> {}]

is_finished(g) == g.turn >= g.len \/ g.out = 1..g.n

get_current_player_number(g) == (g.turn % g.n) + 1

(* apply_action returns Err for None and for an action that is not allowed; *)
(* the current player is updated in every case                             *)
ApplyRejects(g, action) == action \in {"None", "SomeIllegal"}

apply_action(g, action) ==
    [g EXCEPT !.turn = @ + 1,
              !.out = IF action = "None" THEN @ \cup {get_current_player_number(g)}
                      ELSE @]

get_player_score(g, i) == IF i \in g.out THEN 0 ELSE 1

(***************************************************************************)
(* run_match, turn by turn                                                 *)
(* runner = [pc, settings, action_time, time_budget, clients,              *)
(*           time_budgets, game, last, spent, rejected]                    *)
(***************************************************************************)
Min(a, b) == IF a <= b THEN a ELSE b

NoTurn ==
    [seat |-> 0, present |-> FALSE, exchange |-> "none", action |-> "None",
     max_duration |-> 0, elapsed |-> 0, dropped |-> FALSE, applied |-> FALSE]

(* what send_and_recv and the decoding of the buffer can come to: the seat *)
(* has no client; or send_and_recv fails (an I/O error, or the read times  *)
(* out; set_read_timeout refuses a zero duration, so nothing else can      *)
(* happen then); or it returns a buffer that is empty, not UTF-8, not an   *)
(* action, or an action the game allows or not                             *)
Exchanges(present, max_duration) ==
    IF ~present THEN {"absent"}
    ELSE IF max_duration = 0 THEN {"io_error"}
    ELSE {"io_error", "timeout", "empty", "non_utf8", "not_action", "illegal", "legal"}

(* the Option<Action> the turn ends with *)
ActionsOf(g, exchange) ==
    CASE exchange = "legal" -> {"SomeLegal"}
      [] exchange = "illegal" -> {"SomeIllegal"}
      [] exchange = "empty" ->
            IF g.from_empty THEN {"SomeLegal", "SomeIllegal"} ELSE {"None"}
      [] OTHER -> {"None"}

(* chrono_start.elapsed(): a read that timed out lasted max_duration at    *)
(* least; the state serialisation, the decoding and the kill of a client   *)
(* add up to MaxOverrun                                                    *)
ElapsedOf(exchange, max_duration) ==
    CASE exchange = "absent" -> 0..MaxOverrun
      [] exchange = "timeout" -> max_duration..(max_duration + MaxOverrun)
      [] OTHER -> 0..(max_duration + MaxOverrun)

(* the worker thread is given one match of AgentList(n) on a slice of the  *)
(* pool, with the time limits of the Constraints                           *)
MatchSettings(n, cpus_per_agent, agent_ram) ==
    [ordered_player |-> AgentList(n),
     resources |-> [total_ram |-> agent_ram * n, agent_ram |-> agent_ram,
                    cpus |-> 0..(cpus_per_agent * n - 1),
                    cpus_per_agent |-> cpus_per_agent]]

InitMatch ==
    /\ pc = "worker"
    /\ constraints = NoConstraints
    /\ game = "draw"
    /\ strategy = SinglePlayerNew(0)
    /\ scheduler = SchedulerNew(NoConstraints)
    /\ \E n \in 1..MaxSeats, c \in 1..MaxCpusPerAgent, r \in 0..1,
          tb \in 0..MaxTime, at \in 0..MaxTime, len \in 0..MaxTurns, e \in BOOLEAN :
          /\ running = <<MatchSettings(n, c, r)>>
          /\ runner = [pc |-> "start", settings |-> MatchSettings(n, c, r),
                       action_time |-> at, time_budget |-> tb, clients |-> {},
                       time_budgets |-> <<>>, game |-> GameNew(n, len, e),
                       last |-> NoTurn, spent |-> <<>>, rejected |-> {}]
    /\ channel = <<>>
    /\ ret = <<>>
    /\ emitted = <<>>
    /\ calls = NoCalls
    /\ process = NoProcess
    /\ call = NoCall

(* "Start client processes" and "Init clocks": ClientHandler::init may     *)
(* fail for any seat                                                       *)
StartClients ==
    /\ runner.pc = "start"
    /\ \E started \in SUBSET (1..Len(runner.settings.ordered_player)) :
          runner' = [runner EXCEPT
                       !.pc = "play",
                       !.clients = started,
                       !.time_budgets = [i \in 1..Len(runner.settings.ordered_player) |->
                                            runner.time_budget],
                       !.spent = [i \in 1..Len(runner.settings.ordered_player) |-> 0]]
    /\ UNCHANGED <<pc, constraints, game, strategy, scheduler, running, channel, ret,
                   emitted, calls, process, call>>

(* time_budgets[current] -= elapsed : Duration's subtraction panics when   *)
(* elapsed is the larger                                                   *)
BudgetSub(time_budget, elapsed) ==
    [panics |-> elapsed > time_budget,
     left |-> IF elapsed > time_budget THEN time_budget ELSE time_budget - elapsed]

(* a client is killed and removed in the turn when its exchange gives no   *)
(* action                                                                  *)
DropsClient(present, action) == present /\ action = "None"

(* one iteration of the while loop; a panic unwinds the thread, which      *)
(* drops every client left                                                 *)
Turn ==
    /\ runner.pc = "play"
    /\ ~is_finished(runner.game)
    /\ runner.clients # {}
    /\ LET g == runner.game
           current == get_current_player_number(g)
           time_budget == runner.time_budgets[current]
           present == current \in runner.clients
           max_duration == Min(runner.action_time, time_budget)
       IN \E exchange \in Exchanges(present, max_duration) :
          \E action \in ActionsOf(g, exchange) :
          \E elapsed \in ElapsedOf(exchange, max_duration) :
             LET dropped == DropsClient(present, action)
                 sub == BudgetSub(time_budget, elapsed)
                 turn == [seat |-> current, present |-> present,
                          exchange |-> exchange, action |-> action,
                          max_duration |-> max_duration, elapsed |-> elapsed,
                          dropped |-> dropped, applied |-> ~sub.panics]
             IN runner' =
                  IF sub.panics
                  THEN [runner EXCEPT !.pc = "panicked", !.clients = {},
                                      !.last = turn]
                  ELSE [runner EXCEPT
                          !.clients = IF dropped THEN @ \ {current} ELSE @,
                          !.time_budgets[current] = sub.left,
                          !.spent[current] = @ + elapsed,
                          !.game = apply_action(g, action),
                          !.rejected = IF action = "SomeIllegal"
                                       THEN @ \cup {current} ELSE @,
                          !.last = turn]
    /\ UNCHANGED <<pc, constraints, game, strategy, scheduler, running, channel, ret,
                   emitted, calls, process, call>>

(* "Kill remaining processes", "Collect final scores"; back in the worker  *)
(* thread the match leaves the running list and the result is sent         *)
MatchEnd ==
    /\ runner.pc = "play"
    /\ is_finished(runner.game) \/ runner.clients = {}
    /\ runner' = [runner EXCEPT !.pc = "done", !.clients = {}]
    /\ running' = RemoveRunning(running, runner.settings)
    /\ channel' = Append(channel,
          [results |-> [i \in 1..Len(runner.settings.ordered_player) |->
                          <<runner.settings.ordered_player[i],
                            get_player_score(runner.game, i)>>],
           resources_freed |-> FreedResources(runner.settings)])
    /\ UNCHANGED <<pc, constraints, game, strategy, scheduler, ret, emitted, calls, process, call>>

NextMatch == StartClients \/ Turn \/ MatchEnd

SpecMatch == InitMatch /\ [][NextMatch]_vars

(***************************************************************************)
(* run_match on a game that does not end by itself: the turn limit of the  *)
(* game is beyond the number of turns the time budgets allow.  The worker  *)
(* thread keeps running: weak fairness of its steps.                       *)
(***************************************************************************)
EndlessLen == MaxSeats * (MaxTime + 2)

InitMatchLive ==
    /\ pc = "worker"
    /\ constraints = NoConstraints
    /\ game = "draw"
    /\ strategy = SinglePlayerNew(0)
    /\ scheduler = SchedulerNew(NoConstraints)
    /\ \E n \in 1..MaxSeats, tb \in 0..MaxTime, at \in 0..MaxTime, e \in BOOLEAN :
          /\ running = <<MatchSettings(n, 1, 1)>>
          /\ runner = [pc |-> "start", settings |-> MatchSettings(n, 1, 1),
                       action_time |-> at, time_budget |-> tb, clients |-> {},
                       time_budgets |-> <<>>, game |-> GameNew(n, EndlessLen, e),
                       last |-> NoTurn, spent |-> <<>>, rejected |-> {}]
    /\ channel = <<>>
    /\ ret = <<>>
    /\ emitted = <<>>
    /\ calls = NoCalls
    /\ process = NoProcess
    /\ call = NoCall

SpecMatchLive == InitMatchLive /\ [][NextMatch]_vars /\ WF_vars(NextMatch)

(***************************************************************************)
(* LimitedProcess: the supervised child process                            *)
(* process = [impl       : "linux" (cgroup-manager) or "stub",             *)
(*            counter    : the static COUNTER of launch,                   *)
(*            handle     : "none", "held" (a LimitedProcess was returned   *)
(*                         and is alive) or "dropped",                     *)
(*            contained  : the cgroup field is Some,                       *)
(*            cleaned_up : the field of that name,                         *)
(*            child      : "none", "running" or "dead" (the OS process),   *)
(*            member     : the child's pid is among the cgroup's tasks,    *)
(*            others     : processes forked by the child are among the     *)
(*                         cgroup's tasks,                                 *)
(*            group      : "none", "exists" or "deleted" (the cgroup),     *)
(*            kills      : kill attempts made through the handle,          *)
(*            killed_ok  : some try_kill call on the handle returned Ok,   *)
(*            last       : the latest call, its result and the cause of    *)
(*                         an error ]                                      *)
(***************************************************************************)
Outcomes == {"ok", "err"}

(* Child::kill : SIGKILL is delivered, or the call fails and changes       *)
(* nothing                                                                 *)
ChildKill(child, kill) == IF kill = "ok" THEN "dead" ELSE child

(* Cgroup::delete *)
GroupDelete(group, del) == IF del = "ok" THEN "deleted" ELSE group

CreateProcessNoKill(p, step, kill) ==
    CASE step = "no_spawn" ->
           [p EXCEPT !.last = [NoOp EXCEPT !.result = "err", !.cause = step]]
      [] step = "no_placement" ->
           [p EXCEPT !.child = "running",
                     !.last = [NoOp EXCEPT !.result = "err", !.cause = step]]
      [] step = "placed" ->
           [p EXCEPT !.child = "running", !.member = TRUE,
                     !.last = [NoOp EXCEPT !.result = "ok"]]

(* create_process_in_cgroup after a successful create_cgroup: the spawn    *)
(* fails, or add_task_by_tgid fails and the child is sent a kill, or the   *)
(* child is placed                                                         *)
create_process_in_cgroup(p, step, kill) ==
    CASE step = "no_spawn" ->
           [p EXCEPT !.last = [NoOp EXCEPT !.result = "err", !.cause = step]]
      [] step = "no_placement" ->
           [p EXCEPT !.child = ChildKill("running", kill),
                     !.last = [NoOp EXCEPT !.result = "err", !.cause = step,
                                          !.kill = kill]]
      [] step = "placed" ->
           [p EXCEPT !.child = "running", !.member = TRUE,
                     !.last = [NoOp EXCEPT !.result = "ok"]]

(* the static COUNTER is an AtomicU32, kept as its two 16-bit halves: *)
(* its value is hi * Half + lo                                        *)
Half == 65536

(* a counter that is read but not advanced *)
FetchNoAdd(counter, val) == [prev |-> counter, next |-> counter]

(* AtomicU32::fetch_add: one indivisible step that returns the previous *)
(* value and stores the sum, wrapping around on overflow                *)
fetch_add(counter, val) ==
    [prev |-> counter,
     next |-> [hi |-> (counter.hi + (counter.lo + val) \div Half) % Half,
               lo |-> (counter.lo + val) % Half]]

(* u32::to_string: the decimal digits, most significant first *)
RECURSIVE to_string(_)
to_string(n) ==
    LET rest == (n.hi % 10) * Half + n.lo
        tenth == [hi |-> n.hi \div 10, lo |-> rest \div 10]
    IN  IF n.hi = 0 /\ n.lo < 10
        THEN <<n.lo>>
        ELSE Append(to_string(tenth), rest % 10)

group_name(n) == <<"CGROUP_MANAGER_">> \o to_string(n)

LaunchSteps == {"no_user_id", "no_cgroup", "no_spawn", "no_placement", "placed"}

(* LimitedProcess::launch *)
launch(p, step, kill, del) ==
    LET named == [p EXCEPT !.counter = fetch_add(@, 1).next]
        made == create_process_in_cgroup([named EXCEPT !.group = "exists"], step, kill)
    IN CASE p.impl = "stub" ->
              [p EXCEPT !.last = [NoOp EXCEPT !.op = "launch", !.result = "err",
                                              !.cause = "not_linux"]]
         [] p.impl = "linux" /\ step = "no_user_id" ->
              [p EXCEPT !.last = [NoOp EXCEPT !.op = "launch", !.result = "err",
                                              !.cause = step]]
         [] p.impl = "linux" /\ step = "no_cgroup" ->
              [named EXCEPT !.last = [NoOp EXCEPT !.op = "launch", !.result = "err",
                                                  !.cause = step]]
         [] p.impl = "linux" /\ step \in {"no_spawn", "no_placement"} ->
              [made EXCEPT !.group = GroupDelete(@, del), !.last.op = "launch"]
         [] p.impl = "linux" /\ step = "placed" ->
              [made EXCEPT !.handle = "held", !.contained = TRUE,
                           !.cleaned_up = FALSE, !.last.op = "launch"]

(* LimitedProcess::launch_without_container *)
launch_without_container(p, spawned) ==
    IF spawned
    THEN [p EXCEPT !.handle = "held", !.contained = FALSE, !.cleaned_up = FALSE,
                   !.child = "running",
                   !.last = [NoOp EXCEPT !.op = "launch_without_container",
                                        !.result = "ok"]]
    ELSE [p EXCEPT !.last = [NoOp EXCEPT !.op = "launch_without_container",
                                        !.result = "err", !.cause = "no_spawn"]]

(* wait_for_process_cleanup: Ok once the pid has left the cgroup's tasks,  *)
(* a timeout if it is still there at the deadline                          *)
WaitOutcomes(p) == IF p.member THEN {"gone", "timeout"} ELSE {"gone"}

(* the record of a try_kill call that went through Child::kill *)
ChildKillCall(kill) ==
    [NoOp EXCEPT !.op = "try_kill", !.result = kill, !.kill = kill,
                 !.cause = IF kill = "ok" THEN "none" ELSE "kill"]

(* try_kill of the stub *)
TryKillStub(p, kill) ==
    [p EXCEPT !.child = ChildKill(@, kill),
              !.cleaned_up = IF kill = "ok" THEN TRUE ELSE @,
              !.kills = @ + 1,
              !.killed_ok = @ \/ kill = "ok",
              !.last = ChildKillCall(kill)]

(* try_kill of cgroup-manager, cgroup: None *)
TryKillUncontained(p, kill) ==
    [p EXCEPT !.child = ChildKill(@, kill),
              !.kills = @ + 1,
              !.killed_ok = @ \/ kill = "ok",
              !.last = ChildKillCall(kill)]

TryKillContainedNoWait(p, kill, wait, del) ==
    IF kill = "err"
    THEN [p EXCEPT !.kills = @ + 1,
                   !.last = [NoOp EXCEPT !.op = "try_kill", !.result = "err",
                                        !.kill = kill, !.cause = "kill"]]
    ELSE [p EXCEPT !.child = "dead", !.kills = @ + 1,
                   !.member = IF wait = "gone" THEN FALSE ELSE @,
                   !.cleaned_up = TRUE, !.killed_ok = TRUE,
                   !.group = GroupDelete(@, del),
                   !.last = [NoOp EXCEPT !.op = "try_kill", !.result = "ok",
                                        !.kill = kill,
                                        !.cause = IF del = "ok" THEN "none"
                                                  ELSE "warn_delete"]]

(* try_kill of cgroup-manager, cgroup: Some *)
TryKillContained(p, kill, wait, del) ==
    CASE kill = "err" ->
           [p EXCEPT !.kills = @ + 1,
                     !.last = [NoOp EXCEPT !.op = "try_kill", !.result = "err",
                                          !.kill = kill, !.cause = "kill"]]
      [] kill = "ok" /\ wait = "timeout" ->
           [p EXCEPT !.child = "dead", !.kills = @ + 1,
                     !.last = [NoOp EXCEPT !.op = "try_kill", !.result = "err",
                                          !.kill = kill, !.cause = "timeout"]]
      [] kill = "ok" /\ wait = "gone" ->
           [p EXCEPT !.child = "dead", !.member = FALSE, !.kills = @ + 1,
                     !.cleaned_up = TRUE, !.killed_ok = TRUE,
                     !.group = GroupDelete(@, del),
                     !.last = [NoOp EXCEPT !.op = "try_kill", !.result = "ok",
                                          !.kill = kill,
                                          !.cause = IF del = "ok" THEN "none"
                                                    ELSE "warn_delete"]]

(* Cgroup::delete fails on a cgroup that still has a task *)
DeleteOutcomes(p, wait) ==
    IF p.others \/ wait = "timeout" THEN {"err"} ELSE Outcomes

(* LimitedProcess::try_kill : the set of its outcomes *)
try_kill(p) ==
    CASE p.impl = "stub" -> {TryKillStub(p, k) : k \in Outcomes}
      [] p.impl = "linux" /\ ~p.contained -> {TryKillUncontained(p, k) : k \in Outcomes}
      [] p.impl = "linux" /\ p.contained ->
           UNION {{TryKillContained(p, k, w, d) : d \in DeleteOutcomes(p, w)} :
                    k \in Outcomes, w \in WaitOutcomes(p)}

(* Drop for LimitedProcess: an error of try_kill is a panic *)
LimitedProcessDrop(p) ==
    IF p.cleaned_up
    THEN {[p EXCEPT !.handle = "dropped",
                    !.last = [NoOp EXCEPT !.op = "drop", !.result = "ok"]]}
    ELSE {[q EXCEPT !.handle = "dropped", !.last.op = "drop",
                    !.last.result = IF q.last.result = "ok" THEN "ok" ELSE "panic"] :
             q \in try_kill(p)}

InitProcess ==
    /\ pc = "process"
    /\ constraints = NoConstraints
    /\ game = "draw"
    /\ strategy = SinglePlayerNew(0)
    /\ scheduler = SchedulerNew(NoConstraints)
    /\ running = <<>>
    /\ channel = <<>>
    /\ ret = <<>>
    /\ emitted = <<>>
    /\ calls = NoCalls
    /\ runner = NoRunner
    /\ process \in {[NoProcess EXCEPT !.impl = i] : i \in {"linux", "stub"}}
    /\ call = NoCall

ProcessFrame ==
    UNCHANGED <<pc, constraints, game, strategy, scheduler, running, channel, ret,
                emitted, calls, runner, call>>

ProcLaunch ==
    /\ process.handle = "none"
    /\ process.last.op = "none"
    /\ \E step \in LaunchSteps, kill \in Outcomes, del \in Outcomes :
          process' = launch(process, step, kill, del)
    /\ ProcessFrame

ProcLaunchWithoutContainer ==
    /\ process.handle = "none"
    /\ process.last.op = "none"
    /\ \E spawned \in BOOLEAN : process' = launch_without_container(process, spawned)
    /\ ProcessFrame

(* the child exits by itself and leaves its cgroup *)
ChildExits ==
    /\ process.child = "running"
    /\ process' = [process EXCEPT !.child = "dead", !.member = FALSE]
    /\ ProcessFrame

(* the child forks a process, which is a task of the same cgroup *)
ChildForks ==
    /\ process.child = "running"
    /\ process.member
    /\ ~process.others
    /\ process' = [process EXCEPT !.others = TRUE]
    /\ ProcessFrame

(* the processes forked by the child end, by themselves or killed with the *)
(* cgroup, and leave it                                                    *)
OthersExit ==
    /\ process.others
    /\ process' = [process EXCEPT !.others = FALSE]
    /\ ProcessFrame

(* a killed child is reaped and leaves its cgroup *)
ChildReaped ==
    /\ process.child = "dead"
    /\ process.member
    /\ process' = [process EXCEPT !.member = FALSE]
    /\ ProcessFrame

ProcTryKill ==
    /\ process.handle = "held"
    /\ process.kills < MaxKills
    /\ process' \in try_kill(process)
    /\ ProcessFrame

ProcDrop ==
    /\ process.handle = "held"
    /\ process' \in LimitedProcessDrop(process)
    /\ ProcessFrame

NextProcess ==
    \/ ProcLaunch
    \/ ProcLaunchWithoutContainer
    \/ ChildExits
    \/ ChildForks
    \/ OthersExit
    \/ ChildReaped
    \/ ProcTryKill
    \/ ProcDrop

SpecProcess == InitProcess /\ [][NextProcess]_vars

(***************************************************************************)
(* Concurrent launches (src/cgroup-manager/src/lib.rs:129-157).  Every     *)
(* match runs in its own thread and launches one client per seat, one      *)
(* after the other; the threads share the static COUNTER of launch, kept   *)
(* in process.counter.  call.output.threads[t] is the position of thread t *)
(* in launch:                                                              *)
(*   pc       : "idle" (outside launch), "user_id" (user id known),        *)
(*              "named" (group_name built, cgroup not yet created),        *)
(*   name     : the group_name of its launch in progress,                  *)
(*   got      : the group names its launches have built so far,            *)
(*   fetched  : how many times it ran fetch_add,                           *)
(*   launched : how many launch calls it has finished.                     *)
(***************************************************************************)
MaxThreads == 2

NoThread == [pc |-> "idle", name |-> <<>>, got |-> {}, fetched |-> 0, launched |-> 0]

(* the counter is 1 in a fresh process; with both halves at Half - 1 it *)
(* holds the largest u32, the next fetch_add wraps it around to 0       *)
InitLaunch ==
    /\ pc = "launch"
    /\ constraints = NoConstraints
    /\ game = "draw"
    /\ strategy = SinglePlayerNew(0)
    /\ scheduler = SchedulerNew(NoConstraints)
    /\ running = <<>>
    /\ channel = <<>>
    /\ ret = <<>>
    /\ emitted = <<>>
    /\ calls = NoCalls
    /\ runner = NoRunner
    /\ \E c \in {[hi |-> 0, lo |-> 1], [hi |-> Half - 1, lo |-> Half - 1]} :
          process = [NoProcess EXCEPT !.counter = c]
    /\ \E n \in 1..MaxThreads :
          call = [op |-> "launch", input |-> n,
                  output |-> [kind |-> "threads", threads |-> [t \in 1..n |-> NoThread]]]

LaunchFrame ==
    UNCHANGED <<pc, constraints, game, strategy, scheduler, running, channel, ret,
                emitted, calls, runner>>

(* get_current_user_id()?: an error returns from launch before the counter *)
(* is touched                                                              *)
LaunchUserId(t) ==
    /\ call.output.threads[t].pc = "idle"
    /\ call.output.threads[t].launched < MaxSeats
    /\ \E ok \in BOOLEAN :
          call' = IF ok
                  THEN [call EXCEPT !.output.threads[t].pc = "user_id"]
                  ELSE [call EXCEPT !.output.threads[t].launched = @ + 1]
    /\ UNCHANGED process
    /\ LaunchFrame

(* "CGROUP_MANAGER_".to_owned() + &COUNTER.fetch_add(1, Relaxed).to_string() *)
LaunchGroupName(t) ==
    /\ call.output.threads[t].pc = "user_id"
    /\ LET f == fetch_add(process.counter, 1)
           name == group_name(f.prev)
       IN  /\ process' = [process EXCEPT !.counter = f.next]
           /\ call' = [call EXCEPT !.output.threads[t] =
                          [@ EXCEPT !.pc = "named", !.name = name,
                                    !.got = @ \cup {name}, !.fetched = @ + 1]]
    /\ LaunchFrame

(* create_cgroup and create_process_in_cgroup: launch returns, with the *)
(* handle or with an error                                              *)
LaunchReturn(t) ==
    /\ call.output.threads[t].pc = "named"
    /\ call' = [call EXCEPT !.output.threads[t] =
                   [@ EXCEPT !.pc = "idle", !.name = <<>>, !.launched = @ + 1]]
    /\ UNCHANGED process
    /\ LaunchFrame

NextLaunch ==
    /\ call.op = "launch"
    /\ \E t \in 1..call.input : LaunchUserId(t) \/ LaunchGroupName(t) \/ LaunchReturn(t)

SpecLaunch == InitLaunch /\ [][NextLaunch]_vars

(***************************************************************************)
(* ConstraintsBuilder::build, called on its own                            *)
(* call = [op, input, output] : a function, its argument and its result    *)
(* (output.kind is "none" before the call, then "Ok", "Err" or "Panic")    *)
(* Option values: None is <<>> and Some(v) is <<v>>                        *)
(***************************************************************************)
None == <<>>

Some(v) == <<v>>

unwrap_or(o, default) == IF o = None THEN default ELSE o[1]

Option(S) == {None} \cup {Some(v) : v \in S}

(* one item of a CPU list: "v" is <<v>>, "a-b" is <<a, b>>, and <<>> stands *)
(* for an item that is neither                                             *)
CpuItems ==
    {<<>>} \cup {<<v>> : v \in 0..(MaxCpus - 1)}
           \cup {<<a, b>> : a \in 0..(MaxCpus - 1), b \in 0..(MaxCpus - 1)}

(* the CPU lists given to with_cpu_list: the empty string and one item *)
CpuLists == {<<>>} \cup {<<i>> : i \in CpuItems}

ItemCpus(item) ==
    IF Len(item) = 1 THEN {item[1]}
    ELSE IF item[1] <= item[2] THEN item[1]..item[2] ELSE item[2]..item[1]

cpu_list_to_hashset(s) ==
    IF s = <<>> \/ \E k \in 1..Len(s) : s[k] = <<>>
    THEN [kind |-> "Err"]
    ELSE [kind |-> "Ok", value |-> UNION {ItemCpus(s[k]) : k \in 1..Len(s)}]

(* AutoCpus *)
CpuSettings ==
    {[kind |-> "Auto"]}
    \cup {[kind |-> "Count", count |-> n] : n \in 0..MaxCpus}
    \cup {[kind |-> "List", list |-> s] : s \in CpuLists}

(* a ConstraintsBuilder and the machine it runs on: available is           *)
(* sys.available_memory() and physical is num_cpus::get_physical()         *)
Builders ==
    [total_ram : Option(0..MaxRam), agent_ram : Option(0..MaxRam),
     cpus : CpuSettings, cpus_per_agent : Option(0..MaxCpusPerAgent),
     available : {k * MegaByte : k \in 0..MaxRam}, physical : 1..MaxCpus]

BuildCpus(b) ==
    CASE b.cpus.kind = "Auto" -> [kind |-> "Ok", value |-> 0..(b.physical - 1)]
      [] b.cpus.kind = "Count" -> [kind |-> "Ok", value |-> 0..(b.cpus.count - 1)]
      [] b.cpus.kind = "List" -> cpu_list_to_hashset(b.cpus.list)

build(b) ==
    LET total_ram == IF b.total_ram = None THEN b.available
                     ELSE b.total_ram[1] * MegaByte
        cpus == BuildCpus(b)
        cpus_per_agent == unwrap_or(b.cpus_per_agent, 1)
        seats == Cardinality(cpus.value) \div cpus_per_agent
    IN CASE total_ram < unwrap_or(b.agent_ram, 0) * MegaByte ->
              [kind |-> "Err", cause |-> "agent_ram"]
         [] OTHER ->
              CASE cpus.kind = "Err" -> [kind |-> "Err", cause |-> "cpu_list"]
                [] OTHER ->
                     IF b.agent_ram = None /\ (cpus_per_agent = 0 \/ seats = 0)
                     THEN [kind |-> "Panic", cause |-> "division_by_zero"]
                     ELSE [kind |-> "Ok",
                           value |-> [total_ram |-> total_ram,
                                      agent_ram |-> IF b.agent_ram = None
                                                    THEN total_ram \div seats
                                                    ELSE b.agent_ram[1] * MegaByte,
                                      cpus |-> cpus.value,
                                      cpus_per_agent |-> cpus_per_agent]]

CallFrame ==
    UNCHANGED <<pc, constraints, game, strategy, scheduler, running, channel, ret,
                emitted, calls, runner, process>>

InitCall(op, inputs) ==
    /\ pc = "call"
    /\ constraints = NoConstraints
    /\ game = "draw"
    /\ strategy = SinglePlayerNew(0)
    /\ scheduler = SchedulerNew(NoConstraints)
    /\ running = <<>>
    /\ channel = <<>>
    /\ ret = <<>>
    /\ emitted = <<>>
    /\ calls = NoCalls
    /\ runner = NoRunner
    /\ process = NoProcess
    /\ \E i \in inputs : call = [op |-> op, input |-> i, output |-> [kind |-> "none"]]

InitBuild == InitCall("build", Builders)

Build ==
    /\ call.op = "build"
    /\ call.output.kind = "none"
    /\ call' = [call EXCEPT !.output = build(call.input)]
    /\ CallFrame

SpecBuild == InitBuild /\ [][Build]_vars

(***************************************************************************)
(* Constraints::try_take on a pool, and the carving of a match's slice     *)
(* into one sub-slice per seat at the start of run_match                   *)
(***************************************************************************)
(* Constraints::try_take : every [kind, self, value] the call can come to *)
try_take(self, num_cpus, ram) ==
    IF CanTake(self, num_cpus, ram)
    THEN {[kind |-> "Some", self |-> TakePool(self, taken, ram),
           value |-> TakeSlice(self, taken, ram)] :
             taken \in TakeChoices(self, num_cpus)}
    ELSE {[kind |-> "None", self |-> self, value |-> self]}

(* the loop of run_match over the seats: avail_res.take(num_cpus, ram) is  *)
(* evaluated for every seat, before ClientHandler::init is tried           *)
RECURSIVE SeatSlices(_, _, _, _)
SeatSlices(avail_res, num_cpus, ram, seats) ==
    IF seats = 0 THEN {[kind |-> "Ok", self |-> avail_res, value |-> <<>>]}
    ELSE UNION {
           {[o EXCEPT !.value = <<TakeSlice(avail_res, taken, ram)>> \o @] :
              o \in SeatSlices(TakePool(avail_res, taken, ram), num_cpus, ram, seats - 1)} :
           taken \in TakeChoices(avail_res, num_cpus)}

(* the pools a scheduler can hold: what is left of a built pool *)
Pools ==
    UNION {{[b EXCEPT !.cpus = c, !.total_ram = t] :
              c \in SUBSET b.cpus, t \in 0..b.total_ram} : b \in BuiltConstraints}

(* the slices the scheduler hands to a match of k seats *)
MatchSlices(k) ==
    UNION {{TakeSlice(p, taken, p.agent_ram * k) :
              taken \in TakeChoices(p, p.cpus_per_agent * k)} :
           p \in {q \in Pools : CanTake(q, q.cpus_per_agent * k, q.agent_ram * k)}}

TakeInputs ==
    {[self |-> p, num_cpus |-> n, ram |-> r, seats |-> 0] :
        p \in Pools, n \in 0..MaxCpus, r \in 0..MaxRam}
    \cup UNION {{[self |-> s, num_cpus |-> s.cpus_per_agent, ram |-> s.agent_ram,
                  seats |-> k] : s \in MatchSlices(k)} : k \in 1..MaxSeats}

InitTake == InitCall("take", TakeInputs)

TryTake ==
    /\ call.op = "take"
    /\ call.output.kind = "none"
    /\ call.input.seats = 0
    /\ \E o \in try_take(call.input.self, call.input.num_cpus, call.input.ram) :
          call' = [call EXCEPT !.output = o]
    /\ CallFrame

StartSeats ==
    /\ call.op = "take"
    /\ call.output.kind = "none"
    /\ call.input.seats > 0
    /\ \E o \in SeatSlices(call.input.self, call.input.num_cpus, call.input.ram,
                           call.input.seats) :
          call' = [call EXCEPT !.output = o]
    /\ CallFrame

NextTake == TryTake \/ StartSeats

SpecTake == InitTake /\ [][NextTake]_vars

(***************************************************************************)
(* The client processes of one run_match call                              *)
(* (src/server/src/match_runner.rs:174-277, client_handler.rs:27-151).     *)
(* call.input  = the number of seats,                                      *)
(* call.output = [pc      : "init" (starting the clients), "play" (the     *)
(*                          while loop), "kill" ("Kill remaining           *)
(*                          processes"), "drop" (the locals are dropped),  *)
(*                          "done" (returned) or "panicked" (the panic     *)
(*                          hook has ended the process),                   *)
(*                seat    : the seat ClientHandler::init is called for     *)
(*                          next,                                          *)
(*                clients : for every seat [handler, process], handler     *)
(*                          "none" (no entry in the clients map), "held",  *)
(*                          "killed" (kill_child_process returned Ok, the  *)
(*                          entry is still in the map) or "dropped", and   *)
(*                          process the LimitedProcess record of the seat ]*)
(***************************************************************************)

(* .unwrap() / .expect(..) on the result of a call: an error is a panic *)
Unwrap(outcomes) ==
    {IF q.last.result = "ok" THEN q ELSE [q EXCEPT !.last.result = "panic"] :
        q \in outcomes}

(* ClientHandler::kill_child_process *)
kill_child_process(p) == try_kill(p)

(* Drop for ClientHandler, then the drop of its process field *)
ClientHandlerDrop(p) ==
    UNION {IF q.last.result = "ok" THEN LimitedProcessDrop(q) ELSE {q} :
             q \in Unwrap(kill_child_process(p))}

(* client.kill_child_process().unwrap(); clients.remove(&current); *)
KillAndRemove(p) ==
    UNION {IF q.last.result = "ok" THEN ClientHandlerDrop(q) ELSE {q} :
             q \in Unwrap(kill_child_process(p))}

(* ClientHandler::init: the agent has no binary; or launch fails; or the  *)
(* child connects in time; or it does not, is killed and its process is  *)
(* dropped                                                                *)
ClientHandlerInit(impl) ==
    LET fresh == [NoProcess EXCEPT !.impl = impl]
        launched == {launch(fresh, step, kill, del) :
                        step \in LaunchSteps, kill \in Outcomes, del \in Outcomes}
    IN  {[handler |-> "none", process |-> fresh]}
        \cup {[handler |-> "none", process |-> l] : l \in {x \in launched : x.last.result = "err"}}
        \cup {[handler |-> "held", process |-> l] : l \in {x \in launched : x.last.result = "ok"}}
        \cup {[handler |-> "none", process |-> d] :
                d \in UNION {UNION {IF q.last.result = "ok"
                                    THEN LimitedProcessDrop(q) ELSE {q} :
                                       q \in Unwrap(try_kill(l))} :
                               l \in {x \in launched : x.last.result = "ok"}}}

InitClients ==
    /\ pc = "run_match"
    /\ constraints = NoConstraints
    /\ game = "draw"
    /\ strategy = SinglePlayerNew(0)
    /\ scheduler = SchedulerNew(NoConstraints)
    /\ running = <<>>
    /\ channel = <<>>
    /\ ret = <<>>
    /\ emitted = <<>>
    /\ calls = NoCalls
    /\ runner = NoRunner
    /\ \E impl \in {"linux", "stub"} : process = [NoProcess EXCEPT !.impl = impl]
    /\ \E n \in 1..MaxSeats :
          call = [op |-> "run_match", input |-> n,
                  output |-> [kind |-> "clients", pc |-> "init", seat |-> 1,
                              clients |-> [i \in 1..n |->
                                  [handler |-> "none", process |-> NoProcess]]]]

Panicked(p) == p.last.result = "panic"

HandlersAt(h) == {i \in 1..call.input : call.output.clients[i].handler = h}

(* "Start client processes": one iteration of the for loop *)
StartClient ==
    /\ call.op = "run_match"
    /\ call.output.pc = "init"
    /\ \E c \in ClientHandlerInit(process.impl) :
          call' = [call EXCEPT
                     !.output.clients[call.output.seat] = c,
                     !.output.seat = @ + 1,
                     !.output.pc = IF Panicked(c.process) THEN "panicked"
                                   ELSE IF call.output.seat = call.input THEN "play"
                                   ELSE "init"]
    /\ CallFrame

(* a turn of the while loop in which the client of seat i gives no action: *)
(* it is killed and removed from the map                                   *)
TurnDropsClient(i) ==
    /\ call.op = "run_match"
    /\ call.output.pc = "play"
    /\ call.output.clients[i].handler = "held"
    /\ \E p \in KillAndRemove(call.output.clients[i].process) :
          call' = [call EXCEPT
                     !.output.clients[i] =
                         [handler |-> IF Panicked(p) THEN "held" ELSE "dropped",
                          process |-> p],
                     !.output.pc = IF Panicked(p) THEN "panicked" ELSE "play"]
    /\ CallFrame

(* time_budgets[current] -= elapsed panics in a turn *)
TurnPanics ==
    /\ call.op = "run_match"
    /\ call.output.pc = "play"
    /\ HandlersAt("held") # {}
    /\ call' = [call EXCEPT !.output.pc = "panicked"]
    /\ CallFrame

(* the while loop ends: the game is finished or the map is empty *)
LoopEnds ==
    /\ call.op = "run_match"
    /\ call.output.pc = "play"
    /\ call' = [call EXCEPT !.output.pc = "kill"]
    /\ CallFrame

(* "Kill remaining processes": one iteration *)
KillRemaining(i) ==
    /\ call.op = "run_match"
    /\ call.output.pc = "kill"
    /\ call.output.clients[i].handler = "held"
    /\ \E p \in Unwrap(kill_child_process(call.output.clients[i].process)) :
          call' = [call EXCEPT
                     !.output.clients[i] =
                         [handler |-> IF Panicked(p) THEN "held" ELSE "killed",
                          process |-> p],
                     !.output.pc = IF Panicked(p) THEN "panicked" ELSE "kill"]
    /\ CallFrame

(* "Collect final scores" *)
CollectScores ==
    /\ call.op = "run_match"
    /\ call.output.pc = "kill"
    /\ HandlersAt("held") = {}
    /\ call' = [call EXCEPT !.output.pc = "drop"]
    /\ CallFrame

(* the clients map goes out of scope: one handler is dropped *)
DropClient(i) ==
    /\ call.op = "run_match"
    /\ call.output.pc = "drop"
    /\ call.output.clients[i].handler = "killed"
    /\ \E p \in ClientHandlerDrop(call.output.clients[i].process) :
          call' = [call EXCEPT
                     !.output.clients[i] =
                         [handler |-> IF Panicked(p) THEN "killed" ELSE "dropped",
                          process |-> p],
                     !.output.pc = IF Panicked(p) THEN "panicked" ELSE "drop"]
    /\ CallFrame

(* run_match returns its MatchResult *)
RunMatchReturns ==
    /\ call.op = "run_match"
    /\ call.output.pc = "drop"
    /\ HandlersAt("killed") = {}
    /\ call' = [call EXCEPT !.output.pc = "done"]
    /\ CallFrame

(* the child of seat i ends by itself and leaves its cgroup *)
ClientExits(i) ==
    /\ call.op = "run_match"
    /\ call.output.pc \in {"init", "play", "kill"}
    /\ call.output.clients[i].process.child = "running"
    /\ call' = [call EXCEPT !.output.clients[i].process.child = "dead",
                            !.output.clients[i].process.member = FALSE]
    /\ CallFrame

NextClients ==
    \/ StartClient
    \/ \E i \in 1..call.input : TurnDropsClient(i)
    \/ TurnPanics
    \/ LoopEnds
    \/ \E i \in 1..call.input : KillRemaining(i)
    \/ CollectScores
    \/ \E i \in 1..call.input : DropClient(i)
    \/ RunMatchReturns
    \/ \E i \in 1..call.input : ClientExits(i)

SpecClients == InitClients /\ [][NextClients]_vars

(***************************************************************************)
(* Configuration::new and Configuration::from_env                          *)
(* A text is a sequence of characters; an environment maps every variable  *)
(* to [kind |-> "unset"], [kind |-> "not_unicode"] or                      *)
(* [kind |-> "unicode", text |-> t].                                       *)
(***************************************************************************)
ConfigurationNew ==
    [verbose |-> TRUE, log_dir |-> None, allow_uncontained |-> FALSE,
     compile_agents |-> TRUE, self_test |-> FALSE, test_all_configs |-> FALSE,
     debug_agent_stderr |-> FALSE]

(* the environment variable of every boolean field *)
FlagVar ==
    [verbose |-> "EVAL_VERBOSE", allow_uncontained |-> "EVAL_ALLOW_UNCONTAINED",
     compile_agents |-> "EVAL_COMPILE_AGENTS", self_test |-> "EVAL_SELF_TEST",
     test_all_configs |-> "EVAL_TEST_ALL_CONFIGS",
     debug_agent_stderr |-> "EVAL_DEBUG_AGENT_STDERR"]

Flags == DOMAIN FlagVar

to_ascii_lowercase(c) ==
    CASE c = "T" -> "t"
      [] c = "R" -> "r"
      [] c = "U" -> "u"
      [] c = "E" -> "e"
      [] c = "Y" -> "y"
      [] c = "S" -> "s"
      [] OTHER -> c

eq_ignore_ascii_case(a, b) ==
    /\ Len(a) = Len(b)
    /\ \A k \in 1..Len(a) : to_ascii_lowercase(a[k]) = to_ascii_lowercase(b[k])

(* std::env::var : Err when the variable is unset or not valid unicode *)
env_var(env, var) ==
    IF env[var].kind = "unicode" THEN [kind |-> "Ok", value |-> env[var].text]
    ELSE [kind |-> "Err"]

GetEnvFlagNoDefault(env, var, default) ==
    env_var(env, var).kind = "Ok"
      /\ eq_ignore_ascii_case(env_var(env, var).value, <<"t", "r", "u", "e">>)

get_env_flag(env, var, default) ==
    IF env_var(env, var).kind = "Ok"
    THEN eq_ignore_ascii_case(env_var(env, var).value, <<"t", "r", "u", "e">>)
    ELSE default

(* Path::is_dir on the paths given: <<"d">> is a directory, <<"f">> a file *)
is_dir(path) == path = <<"d">>

from_env(env) ==
    [verbose |-> get_env_flag(env, "EVAL_VERBOSE", TRUE),
     log_dir |-> IF env_var(env, "EVAL_LOG_DIR").kind = "Ok"
                    /\ is_dir(env_var(env, "EVAL_LOG_DIR").value)
                 THEN Some(env_var(env, "EVAL_LOG_DIR").value) ELSE None,
     allow_uncontained |-> get_env_flag(env, "EVAL_ALLOW_UNCONTAINED", FALSE),
     compile_agents |-> get_env_flag(env, "EVAL_COMPILE_AGENTS", TRUE),
     self_test |-> get_env_flag(env, "EVAL_SELF_TEST", FALSE),
     test_all_configs |-> get_env_flag(env, "EVAL_TEST_ALL_CONFIGS", FALSE),
     debug_agent_stderr |-> get_env_flag(env, "EVAL_DEBUG_AGENT_STDERR", FALSE)]

Unset == [kind |-> "unset"]

NotUnicode == [kind |-> "not_unicode"]

Text(t) == [kind |-> "unicode", text |-> t]

FlagValues ==
    {Unset, NotUnicode, Text(<<"t", "r", "u", "e">>), Text(<<"T", "r", "U", "e">>),
     Text(<<"1">>), Text(<<"y", "e", "s">>)}

LogDirValues == {Unset, NotUnicode, Text(<<"d">>), Text(<<"f">>)}

Envs ==
    {env \in [{FlagVar[f] : f \in Flags} \cup {"EVAL_LOG_DIR"}
                 -> FlagValues \cup LogDirValues] :
        /\ env["EVAL_LOG_DIR"] \in LogDirValues
        /\ \A f \in Flags : env[FlagVar[f]] \in FlagValues}

InitFromEnv == InitCall("from_env", Envs)

FromEnv ==
    /\ call.op = "from_env"
    /\ call.output.kind = "none"
    /\ call' = [call EXCEPT !.output = [kind |-> "Ok", value |-> from_env(call.input)]]
    /\ CallFrame

SpecFromEnv == InitFromEnv /\ [][FromEnv]_vars

(***************************************************************************)
(* Properties                                                              *)
(***************************************************************************)
(* the resource slices of the matches in flight: those of the running      *)
(* matches, then those carried back by the results waiting in the channel  *)
InFlight ==
    [k \in 1..Len(running) |-> running[k].resources]
    \o [k \in 1..Len(channel) |-> channel[k].resources_freed]

SeatsOfSlice(k) ==
    IF k <= Len(running) THEN Len(running[k].ordered_player)
    ELSE Len(channel[k - Len(running)].results)

(* C1: resource conservation. In every state the CPUs of the pool and of   *)
(* the slices in flight make up the initial CPU set, pool RAM plus the RAM *)
(* of the slices in flight is the initial RAM, and every slice in flight,  *)
(* also the one a result carries back, is the slice try_take made for the  *)
(* match: cpus_per_agent CPUs and agent_ram bytes for each seat.           *)
ResourceConservation ==
    /\ scheduler.resources.cpus \cup UNION {InFlight[k].cpus : k \in 1..Len(InFlight)}
         = constraints.cpus
    /\ scheduler.resources.total_ram
         + SeqSum([k \in 1..Len(InFlight) |-> InFlight[k].total_ram])
         = constraints.total_ram
    /\ \A k \in 1..Len(InFlight) :
          /\ Cardinality(InFlight[k].cpus) = constraints.cpus_per_agent * SeatsOfSlice(k)
          /\ InFlight[k].total_ram = constraints.agent_ram * SeatsOfSlice(k)

(* a result carrying its slice back waits in the channel while another     *)
(* match is still running and a third party, the pool, is not whole        *)
ConservationWitness ==
    /\ channel # <<>>
    /\ running # <<>>
    /\ Head(channel).resources_freed.cpus # {}
    /\ Head(channel).resources_freed.total_ram > 0
    /\ scheduler.resources.cpus # constraints.cpus

(* C2: seat disjointness. Any two matches in flight at the same time have  *)
(* disjoint CPU sets.                                                      *)
SeatDisjointness ==
    \A i, j \in 1..Len(InFlight) :
        i # j => InFlight[i].cpus \cap InFlight[j].cpus = {}

(* two two-player matches are running at the same time *)
DisjointnessWitness ==
    \E i, j \in 1..Len(running) :
        /\ i # j
        /\ Len(running[i].ordered_player) = 2
        /\ Len(running[j].ordered_player) = 2
        /\ running[i].resources.cpus # {}
        /\ running[j].resources.cpus # {}

(* C3: round barrier. A step in which the scheduler calls advance_round    *)
(* starts with an empty pending queue and with no match of the previous    *)
(* round undelivered: no worker is running and the only result there may   *)
(* be is the one on_result is consuming in this step.                      *)
RoundBarrier ==
    [][calls'.round # calls.round =>
          /\ scheduler.pending_matches = <<>>
          /\ running = <<>>
          /\ Len(channel) <= 1
          /\ scheduler.running_matches = Len(channel)
          /\ channel' = <<>>]_vars

(* a second round with pairings has been generated *)
RoundBarrierWitness ==
    /\ calls.round >= 2
    /\ calls.nonempty >= 2
    /\ running # <<>>

NoDuplicate(match) == \A i, j \in 1..Len(match) : i # j => match[i] # match[j]

(* C4: self-play forbidden. No pairing returned by advance_round of Swiss  *)
(* or RoundRobin holds the same agent in two seats.                        *)
NoSelfPlay ==
    strategy.kind \in {"Swiss", "RoundRobin"} =>
        \A k \in 1..Len(ret) : NoDuplicate(ret[k])

(* C5: RoundRobin first round. The first advance_round call returns every  *)
(* unordered pair of distinct agents once when symmetric, and every        *)
(* ordered pair of distinct agents once when not.                          *)
RoundRobinFirstRound ==
    (strategy.kind = "RoundRobin" /\ pc = "rounds" /\ calls.round = 1) =>
        LET A == Range(strategy.agents)
            n == Cardinality(A)
        IN IF strategy.symmetric
           THEN /\ Len(ret) = (n * (n - 1)) \div 2
                /\ \A k \in 1..Len(ret) : NoDuplicate(ret[k])
                /\ \A a, b \in A : a # b =>
                      Cardinality({k \in 1..Len(ret) : Range(ret[k]) = {a, b}}) = 1
           ELSE /\ Len(ret) = n * (n - 1)
                /\ Range(ret) = {p \in A \X A : p[1] # p[2]}

(* C6: evaluation never blocks forever. Whenever the main loop is about to *)
(* wait on the result channel, a match is in flight: a worker is running   *)
(* or a result is already in the channel.                                  *)
NeverBlocks ==
    (pc = "loop" /\ ~scheduler.is_finished) => (running # <<>> \/ channel # <<>>)

(* C7: Swiss termination. At most max_rounds advance_round calls return    *)
(* pairings, and a call made once max_rounds calls have returned pairings  *)
(* returns none.                                                           *)
SwissTermination ==
    /\ [](strategy.kind = "Swiss" /\ pc = "rounds" =>
             calls.nonempty <= strategy.max_rounds)
    /\ [][(strategy.kind = "Swiss" /\ pc = "rounds"
             /\ calls.nonempty = strategy.max_rounds
             /\ calls'.round = calls.round + 1) => ret' = <<>>]_vars

(* max_rounds >= 1 rounds returned pairings and a later call returned none *)
SwissTerminationWitness ==
    /\ strategy.kind = "Swiss"
    /\ strategy.max_rounds >= 1
    /\ calls.nonempty = strategy.max_rounds
    /\ calls.round > calls.nonempty
    /\ ret = <<>>

(* C8: Finished is terminal. Once an advance_round call has returned an    *)
(* empty list, the next call (which has no result to pass) returns an      *)
(* empty list too, for every strategy.                                     *)
FinishedIsTerminal ==
    [][(pc = "rounds" /\ calls.round >= 1 /\ ret = <<>>
          /\ calls'.round = calls.round + 1) => ret' = <<>>]_vars

(* rounds were played, then two calls in a row returned empty *)
FinishedWitness ==
    /\ pc = "rounds"
    /\ calls.nonempty >= 1
    /\ calls.round >= calls.nonempty + 2
    /\ ret = <<>>

(* C9: players_per_match consistency. Every pairing returned by Swiss and  *)
(* RoundRobin has 2 seats and every pairing returned by SinglePlayer has   *)
(* 1, which is players_per_match() of the strategy.                        *)
PlayersPerMatchConsistency ==
    \A k \in 1..Len(ret) :
        /\ Len(ret[k]) = IF strategy.kind = "SinglePlayer" THEN 1 ELSE 2
        /\ Len(ret[k]) = players_per_match(strategy)

(* a Swiss round that pairs two agents and gives a third one a bye *)
PlayersPerMatchWitness ==
    /\ strategy.kind = "Swiss"
    /\ ret # <<>>
    /\ strategy.bye_history # {}

(* C10: advance() is idempotent. A further advance() call, made when the   *)
(* scheduler has received no result since its previous advance(), returns  *)
(* no match and calls no advance_round: the strategy is left as it was.    *)
AdvanceIdempotent ==
    [][calls'.advance # calls.advance =>
          /\ emitted' = <<>>
          /\ calls'.round = calls.round
          /\ strategy' = strategy
          /\ scheduler' = scheduler]_vars

(* advance() was called again while matches were waiting for resources *)
IdempotentWitness ==
    /\ calls.advance >= 1
    /\ scheduler.pending_matches # <<>>
    /\ running # <<>>

(* the pool of scenario S6: four CPUs, one CPU per agent, and RAM as the   *)
(* builder sets it by default (agent_ram = total_ram / 4), so that RAM     *)
(* never refuses a match the CPUs allow                                    *)
ContentionPool ==
    /\ Cardinality(constraints.cpus) = 4
    /\ constraints.cpus_per_agent = 1
    /\ constraints.agent_ram = constraints.total_ram \div 4

SeatsOfMatch == 1..Len(runner.settings.ordered_player)

ExchangeFailures == {"io_error", "timeout", "empty", "non_utf8", "not_action"}

(* C12: budget monotonicity. The match is never aborted by the clock       *)
(* bookkeeping, and the remaining budget of every seat is time_budget less *)
(* the elapsed times of its turns, stopping at zero: what was subtracted   *)
(* never exceeds time_budget.                                              *)
BudgetMonotonicity ==
    runner.pc \in {"play", "done", "panicked"} =>
        /\ runner.pc # "panicked"
        /\ \A i \in SeatsOfMatch :
              /\ runner.time_budgets[i] \in 0..runner.time_budget
              /\ runner.time_budgets[i] =
                    IF runner.spent[i] > runner.time_budget THEN 0
                    ELSE runner.time_budget - runner.spent[i]

(* C13: a failed exchange drops the client. After a turn in which the      *)
(* exchange with the seat's client failed (I/O error, timeout, empty       *)
(* buffer, invalid UTF-8, unparsable action), the client has been killed   *)
(* and removed in that turn and None has been applied to the game.         *)
FailedExchangeDropsClient ==
    (runner.pc \in {"play", "done", "panicked"}
       /\ runner.last.present /\ runner.last.exchange \in ExchangeFailures) =>
        /\ runner.last.dropped
        /\ runner.last.seat \notin runner.clients
        /\ runner.last.action = "None"
        /\ runner.last.applied

(* C14: a rejected action drops the client. A seat whose Some(action) was  *)
(* rejected by apply_action has no client any more, so it is not asked for *)
(* an action again.                                                        *)
RejectedActionDropsClient ==
    runner.pc \in {"play", "done", "panicked"} =>
        \A s \in runner.rejected : s \notin runner.clients

(* C15: zero timeouts. With action_timeout = 0 or time_budget = 0 a seat   *)
(* that has a client is eliminated in the turn it is asked (client         *)
(* dropped, None applied), the match is not aborted, and when it is over   *)
(* it has sent the scores of every seat and the slice it was given.        *)
ZeroTimeoutEliminates ==
    (runner.pc \in {"play", "done", "panicked"}
       /\ (runner.action_time = 0 \/ runner.time_budget = 0)) =>
        /\ runner.pc # "panicked"
        /\ runner.last.present =>
              /\ runner.last.dropped
              /\ runner.last.action = "None"
              /\ runner.last.applied
              /\ runner.last.seat \notin runner.clients
        /\ runner.pc = "done" =>
              /\ Len(channel) = 1
              /\ Len(channel[1].results) = Len(runner.settings.ordered_player)
              /\ channel[1].resources_freed = runner.settings.resources

(* C16: Swiss games per pair. In every round each pair that Swiss pairs    *)
(* gets exactly num_match_per_pair matches, the seats alternating: the     *)
(* games of a pair are [a, b], [b, a], [a, b], ...                         *)
SwissGamesPerPair ==
    (strategy.kind = "Swiss" /\ pc = "rounds") =>
        \A k \in 1..Len(ret) :
            LET games == {j \in 1..Len(ret) : Range(ret[j]) = Range(ret[k])}
                first == ret[SetMin(games)]
            IN /\ Cardinality(games) = strategy.num_match_per_pair
               /\ \A j \in games :
                     ret[j] = IF Cardinality({h \in games : h < j}) % 2 = 0
                              THEN first ELSE <<first[2], first[1]>>

(* the score of agent x summed over the games of the batch it played       *)
(* against y, whatever its seat                                            *)
SumAgainst(batch, x, y) ==
    SeqSum([k \in 1..Len(batch) |->
              IF {batch[k][1][1], batch[k][2][1]} = {x, y}
              THEN IF batch[k][1][1] = x THEN batch[k][1][2] ELSE batch[k][2][2]
              ELSE 0])

MetIn(batch, x) ==
    {y \in Range(strategy.agents) \ {x} :
        \E k \in 1..Len(batch) : {batch[k][1][1], batch[k][2][1]} = {x, y}}

(* C17: Swiss pair-result aggregation. When advance_round is given a batch *)
(* every pair of the batch yields one outcome, from the sums of the two    *)
(* agents over all their games: a draw for both when the sums are equal,   *)
(* else a win for the larger sum and a loss for the other; the two agents  *)
(* enter each other's adversary set. (An agent left unpaired by the same   *)
(* call also gets the win of its bye.)                                     *)
PairAggregation ==
    [][(scheduler.scores # <<>> /\ calls'.round = calls.round + 1) =>
          LET B == scheduler.scores
              Paired == UNION {Range(ret'[k]) : k \in 1..Len(ret')}
              Bye(x) == IF strategy'.round > strategy.round /\ x \notin Paired
                        THEN 1 ELSE 0
              W(x) == Cardinality({y \in MetIn(B, x) :
                                      SumAgainst(B, x, y) > SumAgainst(B, y, x)})
              D(x) == Cardinality({y \in MetIn(B, x) :
                                      SumAgainst(B, x, y) = SumAgainst(B, y, x)})
              L(x) == Cardinality({y \in MetIn(B, x) :
                                      SumAgainst(B, x, y) < SumAgainst(B, y, x)})
          IN \A x \in Range(strategy.agents) :
                /\ strategy'.scores[x].score.num_win
                      = strategy.scores[x].score.num_win + W(x) + Bye(x)
                /\ strategy'.scores[x].score.num_draw
                      = strategy.scores[x].score.num_draw + D(x)
                /\ strategy'.scores[x].score.num_lose
                      = strategy.scores[x].score.num_lose + L(x)
                /\ strategy'.scores[x].adv = strategy.scores[x].adv \cup MetIn(B, x)
      ]_vars

(* two agents have played two games of their first round against each      *)
(* other and hold one outcome: a win for the one, a loss for the other     *)
PairAggregationWitness ==
    /\ pc = "scored"
    /\ Len(strategy.agents) = 2
    /\ calls.round = 2
    /\ calls.games = 2
    /\ strategy.scores[2].adv = {1}
    /\ strategy.scores[2].score.num_win = 1
    /\ strategy.scores[2].score.num_lose = 0
    /\ strategy.scores[1].score.num_lose = 1
    /\ strategy.scores[1].score.num_win = 0

(* C18: Swiss never re-pairs agents that have met. No pairing returned by  *)
(* SwissTournament::advance_round holds two agents one of which is in the  *)
(* other's adversary set, or the same agent twice.                         *)
SwissNoRematch ==
    (strategy.kind = "Swiss" /\ pc = "rounds") =>
        \A k \in 1..Len(ret) :
            /\ ret[k][1] # ret[k][2]
            /\ ret[k][1] \notin strategy.scores[ret[k][2]].adv
            /\ ret[k][2] \notin strategy.scores[ret[k][1]].adv

(* a later round pairs two agents that have both already played            *)
SwissNoRematchWitness ==
    /\ strategy.kind = "Swiss"
    /\ pc = "rounds"
    /\ calls.round >= 2
    /\ \E k \in 1..Len(ret) :
          /\ strategy.scores[ret[k][1]].adv # {}
          /\ strategy.scores[ret[k][2]].adv # {}

(* the first call of advance_round on a Swiss tournament of one agent has  *)
(* returned                                                                *)
SwissSingleAgentCalled ==
    /\ strategy.kind = "Swiss"
    /\ Len(strategy.agents) = 1
    /\ pc = "rounds"
    /\ calls.round = 1

(* C19, as stated: Swiss with a single agent. The first advance_round call *)
(* returns no pairing and credits the agent a bye, num_win = 1, for auto   *)
(* rounds as well as for an explicit max_rounds.                           *)
SwissSingleAgentBye ==
    SwissSingleAgentCalled =>
        /\ ret = <<>>
        /\ strategy.scores[strategy.agents[1]].score.num_win = 1

(* C19, amended: Swiss with a single agent. The first advance_round call   *)
(* returns no pairing; with an explicit max_rounds >= 1 it credits the     *)
(* agent a bye (num_win = 1, the agent enters bye_history); with auto      *)
(* rounds the number of rounds is ceil(log2(1)) = 0, no round is started   *)
(* and the agent keeps num_win = 0.                                        *)
SwissSingleAgent ==
    SwissSingleAgentCalled =>
        LET a == strategy.agents[1]
            auto == strategy.max_rounds = 0
        IN /\ ret = <<>>
           /\ strategy.scores[a].score.num_win = IF auto THEN 0 ELSE 1
           /\ strategy.scores[a].score.num_draw = 0
           /\ strategy.scores[a].score.num_lose = 0
           /\ strategy.bye_history = IF auto THEN {} ELSE {a}
           /\ strategy.round = IF auto THEN 0 ELSE 1

SwissSingleAgentWitness ==
    /\ SwissSingleAgentCalled
    /\ strategy.max_rounds >= 1
    /\ strategy.bye_history = {strategy.agents[1]}
    /\ strategy.scores[strategy.agents[1]].score.num_win = 1

(* C20: Swiss final tie-breakers are fresh. Once advance_round has         *)
(* returned empty, the tie_breaker of every agent in the scores map is the *)
(* median formula on the win and draw counts of the same map: the sum of   *)
(* 2*num_win + num_draw over its adversaries minus the least and the       *)
(* greatest of these values, 0 with at most one adversary.                 *)
SwissFinalTieBreakersFresh ==
    (strategy.kind = "Swiss" /\ pc = "rounds" /\ calls.round >= 1 /\ ret = <<>>) =>
        \A a \in Range(strategy.agents) :
            strategy.scores[a].score.tie_breaker = TieBreaker(strategy.scores, a)

(* the number of one-seat matches of agent a in a list of pairings *)
SPMatchesOf(pending, a) == Cardinality({k \in 1..Len(pending) : pending[k] = <<a>>})

PlacementFailed ==
    process.last.op = "launch" /\ process.last.cause = "no_placement"

Dropping == process.handle = "held" /\ process'.handle = "dropped"

(* C23: drop contract of the supervised process. Dropping a LimitedProcess *)
(* that was not already cleaned makes one try_kill attempt and panics      *)
(* exactly if it fails; dropping one on which try_kill has already         *)
(* succeeded makes no further kill attempt, contained or not.              *)
DropContract ==
    [][Dropping =>
          /\ ~process.cleaned_up =>
                /\ process'.kills = process.kills + 1
                /\ process'.last.result \in {"ok", "panic"}
                /\ process'.last.result = "panic"
                      <=> process'.last.cause \in {"kill", "timeout"}
          /\ process.killed_ok =>
                /\ process'.kills = process.kills
                /\ process'.last.result = "ok"]_vars

(* the settings of a builder ask for more RAM per agent than there is *)
RamImpossible(b) ==
    /\ b.agent_ram # None
    /\ b.agent_ram[1] * MegaByte
          > (IF b.total_ram = None THEN b.available ELSE b.total_ram[1] * MegaByte)

(* the settings of a builder give fewer CPUs than one agent needs *)
CpusImpossible(b) ==
    /\ BuildCpus(b).kind = "Ok"
    /\ Cardinality(BuildCpus(b).value) < unwrap_or(b.cpus_per_agent, 1)

(* C24: Constraints validity. Every Constraints value returned by          *)
(* ConstraintsBuilder::build has total_ram >= agent_ram and at least       *)
(* cpus_per_agent CPUs; a builder whose settings violate either makes      *)
(* build return an error.                                                  *)
ConstraintsValidity ==
    (call.op = "build" /\ call.output.kind # "none") =>
        /\ call.output.kind = "Ok" =>
              /\ call.output.value.total_ram >= call.output.value.agent_ram
              /\ Cardinality(call.output.value.cpus)
                    >= call.output.value.cpus_per_agent
        /\ (RamImpossible(call.input) \/ CpusImpossible(call.input)) =>
              call.output.kind = "Err"

(* Configuration::from_env has returned *)
FromEnvReturned == call.op = "from_env" /\ call.output.kind = "Ok"

(* C25: Configuration::from_env with none of the EVAL_* variables set      *)
(* returns a configuration equal, field by field, to Configuration::new(). *)
FromEnvDefaults ==
    (FromEnvReturned /\ \A var \in DOMAIN call.input : call.input[var] = Unset) =>
        /\ DOMAIN call.output.value = DOMAIN ConfigurationNew
        /\ \A field \in DOMAIN ConfigurationNew :
              call.output.value[field] = ConfigurationNew[field]

FromEnvDefaultsWitness ==
    /\ FromEnvReturned
    /\ \A var \in DOMAIN call.input : call.input[var] = Unset
    /\ call.output.value.verbose
    /\ call.output.value.compile_agents
    /\ ~call.output.value.self_test
    /\ call.output.value.log_dir = None

(* the texts over the letters used that read "true" in some case *)
TrueTexts ==
    {<<a, b, c, d>> : a \in {"t", "T"}, b \in {"r", "R"}, c \in {"u", "U"},
                      d \in {"e", "E"}}

(* C26: flag parsing of Configuration::from_env. For each boolean EVAL_*   *)
(* variable the value "true", in any case, enables the flag, and any other *)
(* value, like an unset variable, gives the default value of the field.    *)
FromEnvFlags ==
    FromEnvReturned =>
        \A f \in Flags :
            call.output.value[f] =
                IF call.input[FlagVar[f]].kind = "unicode"
                     /\ call.input[FlagVar[f]].text \in TrueTexts
                THEN TRUE ELSE ConfigurationNew[f]

(* C27: scheduler finished flag. is_finished becomes true only inside an   *)
(* advance() call in which advance_round returned an empty list; whenever  *)
(* it is true the pending queue is empty and no match is running; once     *)
(* true it stays true and advance_round is not called again.               *)
FinishedFlag ==
    /\ [][(~scheduler.is_finished /\ scheduler'.is_finished) =>
             /\ calls'.round = calls.round + 1
             /\ ret' = <<>>]_vars
    /\ [](scheduler.is_finished =>
             /\ scheduler.pending_matches = <<>>
             /\ scheduler.running_matches = 0
             /\ running = <<>>)
    /\ [][scheduler.is_finished =>
             /\ scheduler'.is_finished
             /\ calls'.round = calls.round
             /\ strategy' = strategy]_vars

(* the tournament has finished after a round was played, and advance() was *)
(* called once more by the client                                          *)
FinishedFlagWitness ==
    /\ scheduler.is_finished
    /\ calls.nonempty >= 1
    /\ calls.round >= 2
    /\ calls.advance >= 1
    /\ emitted = <<>>
    /\ ret = <<>>

(* the result a worker sends for a match of the given players *)
ResultOf(players) ==
    run_match([ordered_player |-> players, resources |-> NoConstraints], game).results

(* the two sequences hold the same elements, each the same number of times *)
SameElements(a, b) ==
    /\ Len(a) = Len(b)
    /\ \A x \in Range(a) \cup Range(b) :
          Cardinality({i \in 1..Len(a) : a[i] = x}) =
          Cardinality({i \in 1..Len(b) : b[i] = x})

(* C28: result batching. Every advance_round call made by the scheduler    *)
(* receives the results of the matches of the previous call's round, each  *)
(* exactly once (nothing on the first call), the accumulator is empty      *)
(* right after the call, and it never holds more than the results of the   *)
(* round being played.                                                     *)
ResultBatching ==
    /\ [][calls'.round = calls.round + 1 =>
             /\ SameElements(calls'.batch, [k \in 1..Len(ret) |-> ResultOf(ret[k])])
             /\ calls.round = 0 => calls'.batch = <<>>
             /\ scheduler'.scores = <<>>]_vars
    /\ [](Len(scheduler.scores) + Len(channel) + Len(running)
             + Len(scheduler.pending_matches) = Len(ret))

(* a second or later call received the results of a round of two matches   *)
(* or more, in an order other than the one the round was returned in       *)
ResultBatchingWitness ==
    /\ calls.round >= 2
    /\ Len(calls.batch) >= 2
    /\ calls.batch[1][1][1] > calls.batch[2][1][1]
    /\ scheduler.scores = <<>>

(* the matches of a round in which agent a is seated *)
PairsOf(round, a) == {k \in 1..Len(round) : a \in Range(round[k])}

(* C29: a Swiss round is a partition. In every advance_round call that     *)
(* runs the pairing step (round < max_rounds) the round counter advances,  *)
(* every match returned seats two different agents of the roster, and each *)
(* agent is either in exactly one match, with no bye, or in none and       *)
(* receives one bye: one more win than its results give, an entry in       *)
(* bye_history, and no adversary added.                                    *)
SwissPartition ==
    [][(strategy.kind = "Swiss" /\ calls'.round = calls.round + 1
          /\ strategy.round < strategy.max_rounds) =>
          LET s1 == SwissUpdateScores(strategy, calls'.batch)
              wins(a) == strategy'.scores[a].score.num_win - s1.scores[a].score.num_win
          IN /\ strategy'.round = strategy.round + 1
             /\ \A k \in 1..Len(ret') :
                   /\ Len(ret'[k]) = 2
                   /\ ret'[k][1] # ret'[k][2]
                   /\ Range(ret'[k]) \subseteq Range(strategy.agents)
             /\ \A a \in Range(strategy.agents) :
                   /\ strategy'.scores[a].adv = s1.scores[a].adv
                   /\ \/ /\ Cardinality(PairsOf(ret', a)) = 1
                         /\ wins(a) = 0
                         /\ a \in strategy'.bye_history <=> a \in strategy.bye_history
                      \/ /\ PairsOf(ret', a) = {}
                         /\ wins(a) = 1
                         /\ a \in strategy'.bye_history]_vars

(* a round of three agents paired after results were passed: two agents   *)
(* play and the third receives a bye                                       *)
SwissPartitionWitness ==
    /\ strategy.kind = "Swiss"
    /\ Len(strategy.agents) = 3
    /\ calls.round >= 2
    /\ calls.batch # <<>>
    /\ strategy.round = calls.round
    /\ Len(ret) = 1
    /\ Cardinality({a \in Range(strategy.agents) : PairsOf(ret, a) = {}}) = 1

(* C30: Swiss double-bye warning. In a call that runs the pairing step the *)
(* agents for which the "already received a bye" warning is printed are    *)
(* exactly the agents given a bye that were in bye_history before the      *)
(* call; an agent given its first bye gets the informational message only. *)
DoubleByeWarning ==
    [][(strategy.kind = "Swiss" /\ calls'.round = calls.round + 1
          /\ strategy'.round = strategy.round + 1) =>
          strategy'.warned =
             {a \in Range(strategy.agents) :
                 PairsOf(ret', a) = {} /\ a \in strategy.bye_history}]_vars

(* the seats <<k, i>> of a batch of results held by agent x *)
SeatsIn(batch, x) ==
    {p \in UNION {{<<k, i>> : i \in 1..Len(batch[k])} : k \in 1..Len(batch)} :
        batch[p[1]][p[2]][1] = x}

(* seat p of the batch has the best score of its match *)
IsBest(batch, p) ==
    \A i \in 1..Len(batch[p[1]]) : batch[p[1]][i][2] <= batch[p[1]][p[2]][2]

(* every seat of match k of the batch has the same score *)
AllTied(batch, k) ==
    \A i, j \in 1..Len(batch[k]) : batch[k][i][2] = batch[k][j][2]

(* the counters of agent x in a RoundRobin scores map, zero without entry *)
RRCount(scores, x, f) == IF x \in DOMAIN scores THEN scores[x][f] ELSE 0

(* C31: RoundRobin scoring. Every result consumed adds one draw to each of *)
(* its seats when all seats are tied, else one win to each seat with the   *)
(* best score and one loss to every other seat; and when the tournament is *)
(* over every agent has n - 1 results (symmetric) or 2 (n - 1) results     *)
(* (not symmetric), n being the number of agents.                          *)
RoundRobinScoring ==
    /\ [][(strategy.kind = "RoundRobin" /\ calls'.round = calls.round + 1) =>
             LET B == calls'.batch
             IN \A x \in Range(strategy.agents) :
                   /\ RRCount(strategy'.scores, x, "num_draw")
                         - RRCount(strategy.scores, x, "num_draw")
                      = Cardinality({p \in SeatsIn(B, x) : AllTied(B, p[1])})
                   /\ RRCount(strategy'.scores, x, "num_win")
                         - RRCount(strategy.scores, x, "num_win")
                      = Cardinality({p \in SeatsIn(B, x) :
                                        ~AllTied(B, p[1]) /\ IsBest(B, p)})
                   /\ RRCount(strategy'.scores, x, "num_lose")
                         - RRCount(strategy.scores, x, "num_lose")
                      = Cardinality({p \in SeatsIn(B, x) :
                                        ~AllTied(B, p[1]) /\ ~IsBest(B, p)})]_vars
    /\ []((strategy.kind = "RoundRobin" /\ pc = "done") =>
             \A x \in Range(strategy.agents) :
                RRCount(strategy.scores, x, "num_win")
                   + RRCount(strategy.scores, x, "num_draw")
                   + RRCount(strategy.scores, x, "num_lose")
                = (IF strategy.symmetric THEN 1 ELSE 2) * (Len(strategy.agents) - 1))

(* TournamentStrategy::get_final_scores *)
get_final_scores(self) ==
    IF self.kind = "Swiss"
    THEN [a \in DOMAIN self.scores |-> self.scores[a].score]
    ELSE self.scores

(* the agents seated in the matches of a round *)
SeatedIn(round) == UNION {Range(round[k]) : k \in 1..Len(round)}

(* C32: final scores cover every agent. When the tournament has finished   *)
(* the map returned by get_final_scores has an entry for every agent       *)
(* passed to add_agents. (A SinglePlayer tournament drains its roster in   *)
(* its first call: its agents are those of the roster before that call,    *)
(* and those seated in its round.)                                         *)
FinalScoresCoverAgents ==
    /\ []((pc = "done" /\ strategy.kind # "SinglePlayer") =>
             Range(strategy.agents) \subseteq DOMAIN get_final_scores(strategy))
    /\ [][(strategy.kind = "SinglePlayer" /\ ~scheduler.is_finished
             /\ scheduler'.is_finished) =>
             Range(strategy.agents) \cup SeatedIn(ret)
                \subseteq DOMAIN get_final_scores(strategy')]_vars

(* the exchange of the latest turn, if made with a live client, took a     *)
(* positive amount of time                                                 *)
PositiveTime == runner.last.present => runner.last.elapsed > 0

(* C33: match termination. With a finite time budget, if every exchange    *)
(* with a live client takes a positive amount of time, run_match ends and  *)
(* returns one score per seat, whatever the game does.                     *)
MatchTerminates ==
    []PositiveTime =>
       <>(/\ runner.pc = "done"
          /\ channel # <<>>
          /\ Len(channel[1].results) = Len(runner.settings.ordered_player))

(* a step of run_match that is one turn of its loop *)
IsTurn == runner.pc = "play" /\ runner'.pc \in {"play", "panicked"} /\ runner' # runner

(* C34: eliminated seats stay eliminated. After startup the set of live    *)
(* clients only shrinks, and on every turn of a seat without client the    *)
(* runner sends the state to no process and applies None to the game.      *)
EliminatedStayEliminated ==
    /\ [][runner.pc # "start" => runner'.clients \subseteq runner.clients]_vars
    /\ [][(IsTurn /\ get_current_player_number(runner.game) \notin runner.clients) =>
             /\ runner'.last.exchange = "absent"
             /\ runner'.last.action = "None"
             /\ runner'.game = apply_action(runner.game, "None")]_vars

(* C35: per-seat sub-slices. At the start of a match every seat is given a *)
(* sub-slice of exactly cpus_per_agent CPUs and agent_ram bytes (the       *)
(* values ClientHandler::init asserts); the CPU sets of different seats    *)
(* are disjoint and all lie in the match's slice.                          *)
SeatSubSlices ==
    (call.op = "take" /\ call.input.seats > 0 /\ call.output.kind # "none") =>
        LET slice == call.input.self
            subs == call.output.value
        IN /\ call.output.kind = "Ok"
           /\ Len(subs) = call.input.seats
           /\ \A i \in 1..Len(subs) :
                 /\ Cardinality(subs[i].cpus) = slice.cpus_per_agent
                 /\ subs[i].cpus_per_agent = slice.cpus_per_agent
                 /\ subs[i].total_ram = slice.agent_ram
                 /\ subs[i].agent_ram = slice.agent_ram
                 /\ subs[i].cpus \subseteq slice.cpus
           /\ \A i, j \in 1..Len(subs) : i # j => subs[i].cpus \cap subs[j].cpus = {}

(* two seats were given two CPUs each out of a slice of four *)
SeatSubSlicesWitness ==
    /\ call.op = "take"
    /\ call.input.seats = 2
    /\ call.input.num_cpus = 2
    /\ call.input.ram >= 1
    /\ call.output.kind = "Ok"
    /\ Len(call.output.value) = 2
    /\ call.output.self.cpus = {}

(* C39: try_take leaves the pool unchanged on failure. With fewer than     *)
(* num_cpus CPUs or less than ram bytes in the pool try_take returns None  *)
(* and the pool is as before; otherwise it returns a slice of exactly      *)
(* num_cpus CPUs of the pool and ram bytes, and exactly those leave the    *)
(* pool.                                                                   *)
TryTakeFrame ==
    (call.op = "take" /\ call.input.seats = 0 /\ call.output.kind # "none") =>
        LET pool == call.input.self
            after == call.output.self
            slice == call.output.value
        IN IF Cardinality(pool.cpus) < call.input.num_cpus
              \/ pool.total_ram < call.input.ram
           THEN call.output.kind = "None" /\ after = pool
           ELSE /\ call.output.kind = "Some"
                /\ slice.cpus \subseteq pool.cpus
                /\ Cardinality(slice.cpus) = call.input.num_cpus
                /\ slice.total_ram = call.input.ram
                /\ after.cpus = pool.cpus \ slice.cpus
                /\ after.total_ram = pool.total_ram - call.input.ram
                /\ after.agent_ram = pool.agent_ram
                /\ after.cpus_per_agent = pool.cpus_per_agent

(* try_take failed for lack of RAM on a pool that had the CPUs asked for *)
TryTakeFrameWitness ==
    /\ call.op = "take"
    /\ call.input.seats = 0
    /\ call.input.num_cpus >= 1
    /\ Cardinality(call.input.self.cpus) >= call.input.num_cpus
    /\ call.input.self.total_ram < call.input.ram
    /\ call.output.kind = "None"
    /\ call.output.self = call.input.self

(* a step that is one try_kill call on a contained process *)
TryKillCall ==
    /\ process.handle = "held"
    /\ process.contained
    /\ process'.kills = process.kills + 1
    /\ process'.last.op = "try_kill"

(* C37, as claimed: try_kill returns Ok and marks the process cleaned only *)
(* once the cgroup has no member task left; with members left at the       *)
(* deadline it returns a timeout error and leaves the cleaned mark as it   *)
(* was; when only the removal of the cgroup fails it warns and returns Ok  *)
(* with the process marked cleaned.                                        *)
TryKillOutcomesEmptyGroup ==
    [][TryKillCall =>
         /\ process'.last.result = "ok" =>
               process'.cleaned_up /\ ~process'.member /\ ~process'.others
         /\ process'.last.cause = "timeout" =>
               /\ process'.last.result = "err"
               /\ process'.member
               /\ process'.cleaned_up = process.cleaned_up
         /\ process'.last.cause = "warn_delete" =>
               /\ process'.last.result = "ok"
               /\ process'.cleaned_up
               /\ process'.group = process.group]_vars

(* C37, amended: try_kill returns Ok and marks the process cleaned only    *)
(* once the pid of the launched child is no longer among the tasks of the  *)
(* cgroup (processes forked by the child may still be members); if the     *)
(* child's pid is still there at the deadline it returns a timeout error   *)
(* and leaves the cleaned mark as it was; when only the removal of the     *)
(* cgroup fails it warns and returns Ok with the process marked cleaned.   *)
TryKillOutcomes ==
    [][TryKillCall =>
         /\ process'.last.result = "ok" => process'.cleaned_up /\ ~process'.member
         /\ (~process.cleaned_up /\ process'.cleaned_up) => process'.last.result = "ok"
         /\ process'.last.cause = "timeout" =>
               /\ process'.last.result = "err"
               /\ process'.member
               /\ process'.cleaned_up = process.cleaned_up
         /\ process'.last.cause = "warn_delete" =>
               /\ process'.last.result = "ok"
               /\ process'.cleaned_up
               /\ process'.group = process.group]_vars

(* try_kill returned Ok and marked the process cleaned while a process     *)
(* forked by the child was still in the cgroup, whose removal failed       *)
TryKillOutcomesWitness ==
    /\ process.last.op = "try_kill"
    /\ process.contained
    /\ process.last.result = "ok"
    /\ process.last.cause = "warn_delete"
    /\ process.cleaned_up
    /\ ~process.member
    /\ process.others
    /\ process.group = "exists"

(***************************************************************************)
(* C38  Unique cgroup names under concurrency: whatever the interleaving   *)
(* of the launch calls of the match threads, no two launches obtain the    *)
(* same group name: the names a thread has built are as many as its        *)
(* fetch_add calls, no name is held by two threads, and two launches in    *)
(* progress never carry the same name.                                     *)
(***************************************************************************)
UniqueGroupNames ==
    call.op = "launch" =>
        LET th == call.output.threads
        IN  /\ \A t \in DOMAIN th : Cardinality(th[t].got) = th[t].fetched
            /\ \A t, u \in DOMAIN th : t # u => th[t].got \cap th[u].got = {}
            /\ \A t, u \in DOMAIN th :
                  (t # u /\ th[t].pc = "named" /\ th[u].pc = "named")
                      => th[t].name # th[u].name

(* C38 witness: two threads are inside launch at once, each with a name    *)
(* built, and a third name was handed out before                           *)
UniqueGroupNamesWitness ==
    /\ call.op = "launch"
    /\ \E t, u \in DOMAIN call.output.threads :
          /\ t # u
          /\ call.output.threads[t].pc = "named"
          /\ call.output.threads[u].pc = "named"
          /\ call.output.threads[t].fetched + call.output.threads[u].fetched >= 3

(* the matches of the worker threads that are at position p *)
MatchesAt(p) ==
    LET at == SelectSeq(call.output.threads, LAMBDA w : w.pc = p)
    IN  [k \in 1..Len(at) |-> at[k].settings]

(***************************************************************************)
(* C40  Running-matches list under concurrency: in every interleaving of   *)
(* the main thread and the workers the expect of remove_running_match      *)
(* never fires; the running list holds exactly the matches of the workers  *)
(* that have not removed theirs yet, each as often as there are such       *)
(* workers, so that a match is off the list once when its result is sent;  *)
(* and the list is empty, with no worker left, when evaluate returns.      *)
(***************************************************************************)
RunningList ==
    call.op = "evaluate" =>
        /\ MatchesAt("panicked") = <<>>
        /\ SameElements(running, MatchesAt("run_match"))
        /\ pc = "done" => running = <<>> /\ call.output.threads = <<>>

(* C40 witness: one worker has removed its match and not sent its result   *)
(* yet, another is still running its match, a result waits in the channel  *)
(* and the main thread has a further match to launch                       *)
RunningListWitness ==
    /\ call.op = "evaluate"
    /\ pc = "launch"
    /\ MatchesAt("removed") # <<>>
    /\ MatchesAt("run_match") # <<>>
    /\ running # <<>>
    /\ channel # <<>>

(***************************************************************************)
(* C36  No child outlives its match: when run_match has returned, no child *)
(* process spawned for one of its seats is still running, and every seat   *)
(* a handler was created for has had a try_kill through that handler       *)
(* return Ok.                                                              *)
(***************************************************************************)
NoChildOutlivesMatch ==
    (call.op = "run_match" /\ call.output.pc = "done") =>
        \A i \in 1..call.input :
            /\ call.output.clients[i].process.child # "running"
            /\ call.output.clients[i].process.handle # "none"
                  => call.output.clients[i].process.killed_ok

====
